---- MODULE Spec2Model ----
(***************************************************************************)
(* A model of the chat backend of og-extractor (src/main.py): API key      *)
(* resolution, the /translate, /chat, /summary and /chat/summary handlers, *)
(* the model fallback loops, message assembly, the OpenSearch adapters and *)
(* the telemetry writers.                                                  *)
(*                                                                         *)
(* Text is modelled as a sequence of tokens, so that concatenation,        *)
(* stripping and prefix tests are computed and not assumed.  An optional   *)
(* value is a sequence of length 0 (None) or 1 (a value).                  *)
(***************************************************************************)
EXTENDS Integers, Sequences, FiniteSets, TLC

\* ---------------------------------------------------------------------
\* Bounds of the model
\* ---------------------------------------------------------------------
MaxHist == 2

\* ---------------------------------------------------------------------
\* Optional values and text
\* ---------------------------------------------------------------------
None == <<>>
Some(x) == <<x>>
IsNone(o) == o = <<>>
Val(o) == o[1]

WS == " "

RECURSIVE LStrip(_)
LStrip(s) == IF s # <<>> /\ Head(s) = WS THEN LStrip(Tail(s)) ELSE s

RECURSIVE RStrip(_)
RStrip(s) == IF s # <<>> /\ s[Len(s)] = WS THEN RStrip(SubSeq(s, 1, Len(s) - 1)) ELSE s

\* str.strip()
Strip(s) == RStrip(LStrip(s))

\* s[-n:]
LastN(s, n) == IF Len(s) <= n THEN s ELSE SubSeq(s, Len(s) - n + 1, Len(s))

RECURSIVE SelectTurns(_, _)
SelectTurns(s, roles) ==
    IF s = <<>> THEN <<>>
    ELSE IF Head(s).role \in roles
         THEN <<Head(s)>> \o SelectTurns(Tail(s), roles)
         ELSE SelectTurns(Tail(s), roles)

\* ---------------------------------------------------------------------
\* Inputs
\* ---------------------------------------------------------------------
Roles == {"system", "user", "assistant"}
HistTokens == <<"h1", "h2", "h3", "h4">>

Turn(r, c) == [role |-> r, content |-> c]

\* every history of at most MaxHist turns; the i-th turn says HistTokens[i]
Histories ==
    UNION { { [i \in 1..n |-> Turn(rs[i], <<HistTokens[i]>>)] : rs \in [1..n -> Roles] }
            : n \in 0..MaxHist }

GEMMA == "google/gemma-3-27b-it:free"
OTHER_MODEL == "meta-llama/llama-3.2-3b-instruct:free"

\* ---------------------------------------------------------------------
\* resolve_openrouter_key
\* ---------------------------------------------------------------------
resolve_openrouter_key_EnvFirst(creds, env) ==
    IF ~IsNone(env) /\ Val(env) # <<>> THEN env
    ELSE IF ~IsNone(creds) /\ Strip(Val(creds)) # <<>> THEN Some(Strip(Val(creds)))
    ELSE None

\* None stands for the HTTPException(401) the function raises
resolve_openrouter_key(creds, env) ==
    LET fromClient == IF ~IsNone(creds) /\ Val(creds) # <<>>
                      THEN Some(Strip(Val(creds))) ELSE None
        api_key_ == IF IsNone(fromClient) \/ Val(fromClient) = <<>> THEN env ELSE fromClient
    IN  IF IsNone(api_key_) \/ Val(api_key_) = <<>> THEN None ELSE api_key_

\* ---------------------------------------------------------------------
\* State
\* ---------------------------------------------------------------------
VARIABLES
    pc,                 \* position of the request handler
    request,            \* the request being served
    env_key,            \* os.environ.get("OPENROUTER_API_KEY")
    opensearch_client,  \* the process-wide handle: "None" or "client"
    store_up,           \* whether the document store answers
    chat_summaries,     \* index chat_summaries: chat_id -> optional document
    ai_chat_logs,       \* index ai_chat_logs: documents in write order
    token_usage,        \* index token_usage: documents in write order
    now,                \* the clock, in ticks
    api_key,            \* the resolved key of the request
    text,               \* the text argument of _translate_logic
    errors,             \* the errors list of the running fallback loop
    loop_idx,           \* position of the running fallback loop in its model list
    sleeps,             \* the asyncio.sleep delays of the running fallback loop
    upstream_calls,     \* every POST issued to the completions endpoint, in order
    store_calls,        \* every call made to a store adapter, in order
    memory_context,     \* result of search_user_memory
    messages,           \* the message list sent upstream by /chat
    user_message,       \* request.message as /chat holds it
    ids,                \* request_id, session_id and user_id of /chat
    upstream,           \* the upstream answer /chat is processing
    background_tasks,   \* BackgroundTasks of the request, in add order
    bg_run,             \* how many of the background tasks have run
    response_sent,      \* the response has been produced
    response,           \* the response of the request
    op_log,             \* the requests the process has finished, oldest first
    fetched,            \* what get_chat_summary returned
    dashboard,          \* what the dashboard handler returned
    page,               \* what the GET of /extract meets at the target URL
    extract_body,       \* the JSON body /extract returned, as its set of leaves
    SHARED_CHATS,       \* the in-memory map share_id -> messages
    share_log,          \* the finished /share requests with their responses, oldest first
    ACTIVE_SESSION_BY_USER, \* experiment_ai_logging: user_id -> session_id
    calls,              \* experiment_ai_logging: the requests in arrival order
    logger_docs,        \* experiment_ai_logging: the documents handed to oss_client.index
    uuids               \* how many uuid4() values the process has drawn

storeVars == <<opensearch_client, store_up, chat_summaries, ai_chat_logs, token_usage, now>>
loopVars == <<text, errors, loop_idx, sleeps>>
chatVars == <<memory_context, messages, user_message, ids, upstream, background_tasks, bg_run>>
extractVars == <<page, extract_body>>
shareVars == <<SHARED_CHATS, share_log>>
sessionVars == <<ACTIVE_SESSION_BY_USER, calls, logger_docs>>
memVars == <<shareVars, sessionVars, uuids>>
procVars == <<op_log, fetched, dashboard, extractVars, memVars>>
vars == <<pc, request, env_key, api_key, upstream_calls, store_calls, response_sent, response,
          storeVars, loopVars, chatVars, procVars>>

\* ---------------------------------------------------------------------
\* Responses
\* ---------------------------------------------------------------------
NoResponse == [code |-> 0, success |-> "none", message |-> <<>>, error |-> <<>>, model |-> ""]

\* HTTPException(status_code=401, detail="API Key missing")
Resp401 == [code |-> 401, success |-> "none", message |-> <<>>,
            error |-> <<"API Key missing">>, model |-> ""]

RespSuccess(msg, model) ==
    [code |-> 200, success |-> "true", message |-> msg, error |-> <<>>, model |-> model]

RespFailure(err) ==
    [code |-> 200, success |-> "false", message |-> <<>>, error |-> err, model |-> ""]

\* {"english": ..., "debug": ..., "build": ...}
RespTranslation(english) ==
    [code |-> 200, success |-> "none", message |-> english, error |-> <<>>, model |-> ""]

\* what /extract meets at the target URL: how the GET ends, the status of the
\* page, its meta tags that have a property attribute, and its title element
Page(kind, status, metas, title) ==
    [kind |-> kind, status |-> status, metas |-> metas, title |-> title]

\* soup.title: absent, an element without a string, an element with text
Title(present, string) == [present |-> present, string |-> string]

NoPage == Page("none", 0, <<>>, Title(FALSE, None))

\* what is kept of a dashboard answer: the token-usage totals and the message totals
Dashboard(total_tokens, total_requests, total_messages, error_count) ==
    [total_tokens |-> total_tokens, total_requests |-> total_requests,
     total_messages |-> total_messages, error_count |-> error_count]

\* the fallback answer of the dashboard handlers
NoDashboard == Dashboard(0, 0, 0, 0)

\* ---------------------------------------------------------------------
\* The document store
\* ---------------------------------------------------------------------
ChatIds == {"c0", "c1"}
U1 == "u1@example.com"
DateTokens == <<"day0", "day1", "day2", "day3", "day4", "day5", "day6", "day7">>

SummaryDoc(user, title, summary, topics, at, count) ==
    [user_email |-> user, title |-> title, summary |-> summary, topics |-> topics,
     last_message_at |-> at, message_count |-> count]

NoDocs == [c \in ChatIds |-> None]

\* the store call raises unless the store answers
StoreAnswers == store_up

\* opensearch_client.index(index=..., id=doc_id, body=body): the body replaces the document
index_chat_summary_Skip(docs, client, up, doc_id, body) == docs

index_chat_summary(docs, client, up, doc_id, body) ==
    IF client = "None" THEN docs
    ELSE IF ~up THEN docs
    ELSE [docs EXCEPT ![doc_id] = Some(body)]

\* ---------------------------------------------------------------------
\* Upstream answers
\* ---------------------------------------------------------------------
\* an answer of the completions endpoint, as the loops tell them apart
FailureKinds == {"exception", "status_429", "status_500", "bad_json",
                 "no_choices", "null_content", "empty_content"}

\* what /chat keeps of the answer to its POST
Answer(kind, content, model, usage, duration_ms) ==
    [kind |-> kind, content |-> content, model |-> model, usage |-> usage,
     duration_ms |-> duration_ms]

NoAnswer == Answer("none", <<>>, <<>>, [shape |-> "absent"], 0)

SUMMARY_MODELS == <<"google/gemini-2.0-flash-exp:free",
                    "google/gemini-2.0-flash-thinking-exp:free",
                    "meta-llama/llama-3-70b-instruct:free",
                    "mistralai/mixtral-8x7b-instruct",
                    "qwen/qwen-2-7b-instruct:free">>

TRANSLATE_MODELS == <<GEMMA>>

\* the stripped content of a translation answer
TRANSLATED == <<"cat">>

MAX_MSG == 50

Trimmed_FilterFirst(msgs) == LastN(SelectTurns(msgs, {"user", "assistant"}), MAX_MSG)

\* trimmed = [m for m in messages[-MAX_MSG:] if m.get("role") in ("user", "assistant")]
Trimmed(msgs) == SelectTurns(LastN(msgs, MAX_MSG), {"user", "assistant"})

\* the answers the summarizer can get: labelled text or free text
AnalyzeContents ==
    { [title |-> Some(<<"T">>), summary |-> Some(<<"S">>), topics |-> Some(<<"t1", "t2">>),
       raw |-> <<"Title:", "T", "Summary:", "S", "Topics:", "t1", ",", "t2">>],
      [title |-> None, summary |-> None, topics |-> None, raw |-> <<"free", "text">>] }

DEFAULT_TITLE == <<"chat summary">>
DEFAULT_SUMMARY == <<"no summary">>

\* the regex extraction of title / summary / topics
ParseSummary(content) ==
    [title |-> IF IsNone(content.title) THEN DEFAULT_TITLE ELSE Val(content.title),
     summary |-> IF ~IsNone(content.summary) THEN Val(content.summary)
                 ELSE IF IsNone(content.title) THEN Strip(content.raw)
                 ELSE DEFAULT_SUMMARY,
     topics |-> IF IsNone(content.topics) THEN <<>> ELSE Val(content.topics)]

\* "Standard OpenSearch Doc Prep": the document _analyze_chat_logic indexes
AnalysisDoc(user_email, parsed, at, count) ==
    SummaryDoc(user_email, Some(parsed.title), Some(parsed.summary), Some(parsed.topics),
               at, count)

Call(title, model, ok) == [title |-> title, model |-> model, ok |-> ok]

\* the loop goes on to the next model unless the attempt returned
LoopContinues_Always(kind) == TRUE

LoopContinues(kind) == kind # "answer"

NextIndex_Skip(i) == i + 2

NextIndex(i) == i + 1

RateLimitDelay_Backoff(attempt) == attempt

\* the seconds slept after a 429 answer to the attempt-th model: asyncio.sleep(1)
RateLimitDelay(attempt) == 1

\* what _analyze_chat_logic appends to errors for a failed attempt
AnalyzeError_All(model, kind) ==
    CASE kind = "status_429" -> << <<model, ":", "429">> >>
      [] kind = "status_500" -> << <<model, ":", "500">> >>
      [] kind = "no_choices" -> << <<model, ":", "200">> >>
      [] OTHER -> << <<model, "error:", "exception">> >>

AnalyzeError(model, kind) ==
    CASE kind = "status_429" -> << <<model, ":", "429">> >>
      [] kind = "status_500" -> << <<model, ":", "500">> >>
      [] kind = "no_choices" -> <<>>
      [] OTHER -> << <<model, "error:", "exception">> >>

\* what _translate_logic appends to errors for a failed attempt
TranslateError(model, kind) ==
    CASE kind = "status_429" -> <<"Model", model, "failed:", "429">>
      [] kind = "status_500" -> <<"Model", model, "failed:", "500">>
      [] kind \in {"no_choices", "empty_content"} -> <<"Model", model, "failed:", "200">>
      [] OTHER -> <<"Model", model, "exception:", "exception">>

\* ---------------------------------------------------------------------
\* Requests
\* ---------------------------------------------------------------------
Req(endpoint, creds, txt, message, model, history, chat_id, user_email) ==
    [endpoint |-> endpoint, creds |-> creds, text |-> txt, message |-> message,
     model |-> model, history |-> history, chat_id |-> chat_id, user_email |-> user_email]

\* Authorization credentials: absent, empty, blank, plain, or with surrounding blanks
AllCreds == {None, Some(<<>>), Some(<<WS>>), Some(<<"k">>), Some(<<WS, "k">>)}
AllEnvKeys == {None, Some(<<>>), Some(<<"e">>)}

TranslateTexts == {<<>>, <<WS>>, <<"maeo">>}

IMAGE_KW == "/img"
ChatMessages == {<<"hi">>, <<IMAGE_KW, WS, "maeo">>, <<IMAGE_KW>>}

TranslateRequests(credSet) ==
    { Req("/translate", c, t, <<>>, GEMMA, <<>>, None, None) : c \in credSet, t \in TranslateTexts }

SummaryRequests(credSet) ==
    { Req(ep, c, <<>>, <<>>, "", h, Some("c1"), u) :
        ep \in {"/summary", "/chat/summary"}, c \in credSet, h \in Histories, u \in {None, Some(U1)} }

\* ---------------------------------------------------------------------
\* Initial states
\* ---------------------------------------------------------------------
\* the handle is None when the startup event has not run (the test client of
\* src/test_main.py) and set afterwards, whether or not the store answered
StoreStates == { <<"None", TRUE>>, <<"None", FALSE>>, <<"client", TRUE>>, <<"client", FALSE>> }

\* stored summaries: none, one of U1 with a summary, one of U1 made by a quick update only
StoredSummaries ==
    { NoDocs,
      [NoDocs EXCEPT !["c0"] = Some(SummaryDoc(Some(U1), Some(<<"T0">>), Some(<<"S0">>), Some(<<"t0">>), 1, 2))],
      [NoDocs EXCEPT !["c0"] = Some(SummaryDoc(Some(U1), None, None, None, 1, 2))] }

\* the module-level dicts are empty when the process starts
InitMem ==
    /\ SHARED_CHATS = <<>>
    /\ share_log = <<>>
    /\ ACTIVE_SESSION_BY_USER = <<>>
    /\ calls = <<>>
    /\ logger_docs = <<>>
    /\ uuids = 0

InitWith(requests, envKeys, storeStates, summaries) ==
    /\ pc = "start"
    /\ request \in requests
    /\ env_key \in envKeys
    /\ \E st \in storeStates : opensearch_client = st[1] /\ store_up = st[2]
    /\ chat_summaries \in summaries
    /\ ai_chat_logs = <<>>
    /\ token_usage = <<>>
    /\ now = 2
    /\ api_key = None
    /\ text = <<>>
    /\ errors = <<>>
    /\ loop_idx = 0
    /\ sleeps = <<>>
    /\ upstream_calls = <<>>
    /\ store_calls = <<>>
    /\ memory_context = None
    /\ messages = <<>>
    /\ user_message = <<>>
    /\ ids = [request_id |-> "", session_id |-> "", user_id |-> ""]
    /\ upstream = NoAnswer
    /\ background_tasks = <<>>
    /\ bg_run = 0
    /\ response_sent = FALSE
    /\ response = NoResponse
    /\ op_log = <<>>
    /\ fetched = None
    /\ dashboard = NoDashboard
    /\ page = NoPage
    /\ extract_body = {}
    /\ InitMem

\* ---------------------------------------------------------------------
\* _translate_logic
\* ---------------------------------------------------------------------
\* what the caller of _translate_logic answers with the returned text
TranslationResponse(result) ==
    IF request.endpoint = "/chat" THEN RespSuccess(result, GEMMA) ELSE RespTranslation(result)

\* entry of _translate_logic(txt, api_key), up to its first await
TranslateEnter(txt) ==
    /\ text' = txt
    /\ errors' = <<>>
    /\ sleeps' = <<>>
    /\ IF Strip(txt) = <<>>
       THEN /\ loop_idx' = 0
            /\ response' = TranslationResponse(<<>>)
            /\ response_sent' = TRUE
            /\ pc' = "done"
       ELSE /\ loop_idx' = 1
            /\ pc' = "tr_loop"
            /\ UNCHANGED <<response, response_sent>>

\* POST /translate
translate_text ==
    /\ pc = "start"
    /\ request.endpoint = "/translate"
    /\ LET k == resolve_openrouter_key(request.creds, env_key)
       IN  /\ api_key' = k
           /\ IF IsNone(k)
              THEN /\ response' = Resp401
                   /\ response_sent' = TRUE
                   /\ pc' = "done"
                   /\ UNCHANGED loopVars
              ELSE TranslateEnter(request.text)
    /\ UNCHANGED <<procVars, request, env_key, upstream_calls, store_calls, storeVars, chatVars>>

\* one iteration of "for model in models" of _translate_logic
TranslateAttempt ==
    /\ pc = "tr_loop"
    /\ loop_idx <= Len(TRANSLATE_MODELS)
    /\ \E kind \in (FailureKinds \cup {"answer"}) :
         LET model == TRANSLATE_MODELS[loop_idx]
         IN  /\ upstream_calls' = Append(upstream_calls,
                                         Call("FastAPI Translation API", model, kind = "answer"))
             /\ IF kind = "answer"
                THEN /\ response' = TranslationResponse(TRANSLATED)
                     /\ response_sent' = TRUE
                     /\ errors' = errors
                ELSE /\ errors' = Append(errors, TranslateError(model, kind))
                     /\ UNCHANGED <<response, response_sent>>
             /\ IF LoopContinues(kind)
                THEN /\ loop_idx' = NextIndex(loop_idx)
                     /\ pc' = "tr_loop"
                ELSE /\ loop_idx' = loop_idx
                     /\ pc' = "done"
    /\ UNCHANGED <<procVars, request, env_key, api_key, store_calls, text, sleeps, storeVars, chatVars>>

\* all models failed: the original text is returned
TranslateExhausted ==
    /\ pc = "tr_loop"
    /\ loop_idx > Len(TRANSLATE_MODELS)
    /\ response' = TranslationResponse(text)
    /\ response_sent' = TRUE
    /\ pc' = "done"
    /\ UNCHANGED <<procVars, request, env_key, api_key, upstream_calls, store_calls,
                   storeVars, loopVars, chatVars>>

\* ---------------------------------------------------------------------
\* _analyze_chat_logic
\* ---------------------------------------------------------------------
\* entry of _analyze_chat_logic, up to its first await
AnalyzeEnter ==
    /\ errors' = <<>>
    /\ sleeps' = <<>>
    /\ text' = <<>>
    /\ IF Trimmed(request.history) = <<>>
       THEN /\ loop_idx' = 0
            /\ response' = RespFailure(<<"No conversation to analyze">>)
            /\ response_sent' = TRUE
            /\ pc' = "done"
       ELSE /\ loop_idx' = 1
            /\ pc' = "an_loop"
            /\ UNCHANGED <<response, response_sent>>

SummaryHandler(endpoint) ==
    /\ pc = "start"
    /\ request.endpoint = endpoint
    /\ LET k == resolve_openrouter_key(request.creds, env_key)
       IN  /\ api_key' = k
           /\ IF IsNone(k)
              THEN /\ response' = Resp401
                   /\ response_sent' = TRUE
                   /\ pc' = "done"
                   /\ UNCHANGED loopVars
              ELSE AnalyzeEnter
    /\ UNCHANGED <<procVars, request, env_key, upstream_calls, store_calls, storeVars, chatVars>>

\* POST /chat/summary
summarize_chat_session == SummaryHandler("/chat/summary")

\* POST /summary
summarize_simple == SummaryHandler("/summary")

\* one iteration of "for model in SUMMARY_MODELS": the POST, the parse and,
\* on an answer, the awaited index_chat_summary and the return
AnalyzeAttempt ==
    /\ pc = "an_loop"
    /\ loop_idx <= Len(SUMMARY_MODELS)
    /\ \E kind \in ((FailureKinds \ {"empty_content"}) \cup {"answer"}), content \in AnalyzeContents :
         LET model == SUMMARY_MODELS[loop_idx]
             parsed == ParseSummary(content)
             doc == AnalysisDoc(request.user_email, parsed, now, Len(request.history))
         IN  /\ upstream_calls' = Append(upstream_calls,
                                         Call("FastAPI Analyzer", model, kind = "answer"))
             /\ IF kind = "answer"
                THEN /\ store_calls' = Append(store_calls, "index_chat_summary")
                     /\ chat_summaries' = index_chat_summary(chat_summaries, opensearch_client,
                                                             StoreAnswers, Val(request.chat_id), doc)
                     /\ now' = now + 1
                     /\ response' = RespSuccess(parsed.summary, model)
                     /\ response_sent' = TRUE
                     /\ UNCHANGED <<errors, sleeps>>
                ELSE /\ errors' = errors \o AnalyzeError(model, kind)
                     /\ sleeps' = IF kind = "status_429"
                                THEN Append(sleeps, RateLimitDelay(loop_idx))
                                ELSE sleeps
                     /\ UNCHANGED <<store_calls, chat_summaries, now, response, response_sent>>
             /\ IF LoopContinues(kind)
                THEN /\ loop_idx' = NextIndex(loop_idx)
                     /\ pc' = "an_loop"
                ELSE /\ loop_idx' = loop_idx
                     /\ pc' = "done"
    /\ UNCHANGED <<procVars, request, env_key, api_key, text, opensearch_client, store_up,
                   ai_chat_logs, token_usage, chatVars>>

AnalyzeFailure_First(errs) ==
    RespFailure(<<"All models failed. Last error:">>
                \o (IF errs # <<>> THEN errs[1] ELSE <<"Unknown">>))

\* the return after the loop
AnalyzeFailure(errs) ==
    RespFailure(<<"All models failed. Last error:">>
                \o (IF errs # <<>> THEN errs[Len(errs)] ELSE <<"Unknown">>))

AnalyzeExhausted ==
    /\ pc = "an_loop"
    /\ loop_idx > Len(SUMMARY_MODELS)
    /\ response' = AnalyzeFailure(errors)
    /\ response_sent' = TRUE
    /\ pc' = "done"
    /\ UNCHANGED <<procVars, request, env_key, api_key, upstream_calls, store_calls,
                   storeVars, loopVars, chatVars>>

\* ---------------------------------------------------------------------
\* The store adapters used by /chat
\* ---------------------------------------------------------------------
\* the summaries a term query on user_email, sorted by last_message_at
\* descending with size 1, can return
TopHits(docs, email) ==
    LET mine == { c \in ChatIds : ~IsNone(docs[c]) /\ Val(docs[c]).user_email = Some(email) }
    IN  { c \in mine : \A d \in mine :
              Val(docs[d]).last_message_at <= Val(docs[c]).last_message_at }

MemoryOf(doc) ==
    IF ~IsNone(doc.summary) /\ Val(doc.summary) # <<>>
    THEN Some(<<"[From previous chat on", DateTokens[doc.last_message_at + 1], "]:">>
              \o Val(doc.summary))
    ELSE None

search_user_memory_Raises(docs, client, up, email) ==
    IF client = "None" THEN {None}
    ELSE IF ~up THEN {Some(<<"ConnectionError">>)}
    ELSE IF TopHits(docs, email) = {} THEN {None}
    ELSE { MemoryOf(Val(docs[c])) : c \in TopHits(docs, email) }

\* the values search_user_memory(email) can return for a non-empty email
search_user_memory(docs, client, up, email) ==
    IF client = "None" THEN {None}
    ELSE IF ~up THEN {None}
    ELSE IF TopHits(docs, email) = {} THEN {None}
    ELSE { MemoryOf(Val(docs[c])) : c \in TopHits(docs, email) }

\* get_opensearch_or_raise as log_to_opensearch and log_token_usage use it:
\* the handle afterwards and whether the caller goes on to write
Reconnect(client, up) ==
    IF client # "None" THEN { [client |-> client, proceeds |-> TRUE] }
    ELSE IF up THEN { [client |-> "client", proceeds |-> TRUE] }
    ELSE { [client |-> "None", proceeds |-> FALSE],      \* ping answered False
           [client |-> "client", proceeds |-> FALSE] }   \* ping raised

quick_update_opensearch_Replace(docs, client, up, chat_id, user_email, count, at) ==
    IF client = "None" \/ ~up THEN docs
    ELSE [docs EXCEPT ![chat_id] = Some(SummaryDoc(user_email, None, None, None, at, count))]

\* quick_update_opensearch: update with doc_as_upsert
quick_update_opensearch(docs, client, up, chat_id, user_email, count, at) ==
    IF client = "None" \/ ~up THEN docs
    ELSE LET old == IF IsNone(docs[chat_id])
                    THEN SummaryDoc(None, None, None, None, at, count)
                    ELSE Val(docs[chat_id])
             touched == [old EXCEPT !.last_message_at = at, !.message_count = count]
         IN  [docs EXCEPT ![chat_id] =
                 Some(IF ~IsNone(user_email) /\ Val(user_email) # ""
                      THEN [touched EXCEPT !.user_email = user_email]
                      ELSE touched)]

\* ---------------------------------------------------------------------
\* Token usage
\* ---------------------------------------------------------------------
Usage(shape, p, c, t) == [shape |-> shape, prompt |-> p, completion |-> c, total |-> t]

\* data.get("usage"): absent, complete, partial, or not a dict at all
Usages == { Usage("absent", None, None, None),
            Usage("dict", Some(10), Some(20), Some(30)),
            Usage("dict", None, None, Some(30)),
            Usage("dict", Some(10), Some(20), None),
            Usage("malformed", None, None, None) }

Durations == {300, 2500}

Max(a, b) == IF a >= b THEN a ELSE b

\* the three counts log_token_usage stores
TokenCounts(usage, response_time_ms, status) ==
    LET p == IF usage.shape = "dict" THEN usage.prompt ELSE None
        c == IF usage.shape = "dict" THEN usage.completion ELSE None
        t == IF usage.shape = "dict" THEN usage.total ELSE None
        estimated_total == IF status = "success" THEN Max(100, response_time_ms \div 10) ELSE 0
    IN  IF IsNone(t)
        THEN [prompt |-> Some(estimated_total \div 2), completion |-> Some(estimated_total \div 2),
              total |-> Some(estimated_total)]
        ELSE [prompt |-> p, completion |-> c, total |-> t]

\* ---------------------------------------------------------------------
\* /chat: message assembly
\* ---------------------------------------------------------------------
NL == "NL"
SYSTEM_DIRECTIVE == <<"You are ABDUL">>
MEMORY_HEADER == "[Long-term memory from previous chats]:"

SystemContent(memory) ==
    IF IsNone(memory) THEN SYSTEM_DIRECTIVE
    ELSE SYSTEM_DIRECTIVE \o <<NL, MEMORY_HEADER, NL>> \o Val(memory)

\* "gemma-3" in request.model
is_no_system_role_model(model) == model = GEMMA

is_image_generation_prompt(message) ==
    Strip(message) # <<>> /\ Head(Strip(message)) = IMAGE_KW

\* the prompt with its command prefix removed
TextToTranslate(message) == Strip(Tail(Strip(message)))

AssembleHead_Replace(history, system_content) ==
    IF history = <<>> THEN <<Turn("system", system_content)>>
    ELSE [history EXCEPT ![1] = Turn("system", system_content)]

AssembleHead_MemoryTurn(history, system_content) ==
    IF history = <<>> \/ history[1].role # "system"
    THEN (IF system_content = SYSTEM_DIRECTIVE
          THEN <<Turn("system", system_content)>>
          ELSE <<Turn("system", SYSTEM_DIRECTIVE),
                 Turn("system", SubSeq(system_content, 2, Len(system_content)))>>) \o history
    ELSE [history EXCEPT ![1] = Turn("system", system_content)]

\* the standard branch: a system message at index 0
AssembleHead(history, system_content) ==
    IF history = <<>> \/ history[1].role # "system"
    THEN <<Turn("system", system_content)>> \o history
    ELSE [history EXCEPT ![1] = Turn("system", system_content)]

Assemble_MessageFirst(history, message, model, system_content) ==
    [messages |-> <<Turn("user", message)>> \o AssembleHead(history, system_content),
     message |-> message]

Assemble_SystemTurn(history, message, model, system_content) ==
    [messages |-> AssembleHead(history, system_content) \o <<Turn("user", message)>>,
     message |-> message]

\* step 3 of chat_with_ai: the message list and request.message afterwards
Assemble(history, message, model, system_content) ==
    IF is_no_system_role_model(model)
    THEN IF history # <<>>
         THEN [messages |->
                   [history EXCEPT ![1] =
                       Turn(IF history[1].role = "system" THEN "user" ELSE history[1].role,
                            system_content \o <<NL>> \o history[1].content)]
                   \o <<Turn("user", message)>>,
               message |-> message]
         ELSE [messages |-> <<Turn("user", system_content \o <<NL>> \o message)>>,
               message |-> system_content \o <<NL>> \o message]
    ELSE [messages |-> AssembleHead(history, system_content) \o <<Turn("user", message)>>,
          message |-> message]

\* ---------------------------------------------------------------------
\* /chat: background tasks
\* ---------------------------------------------------------------------
\* x or default
OrElse(o, default) == IF IsNone(o) \/ Val(o) = "" THEN default ELSE Val(o)

LogTask(session_id, user_id, role, model, status, content) ==
    [fn |-> "log_to_opensearch", session_id |-> session_id, user_id |-> user_id, role |-> role,
     model |-> model, status |-> status, content |-> content, count |-> 0]

TouchTask(chat_id, user_email, count) ==
    [fn |-> "quick_update_opensearch", session_id |-> chat_id, user_id |-> OrElse(user_email, ""),
     role |-> "", model |-> "", status |-> "", content |-> <<>>, count |-> count]

SummaryTouch_Always(chat_id, user_email, count) ==
    <<TouchTask(OrElse(chat_id, "c1"), user_email, count)>>

\* "if request.chat_id:" the quick-update task is queued only for a request with a chat_id
SummaryTouch(chat_id, user_email, count) ==
    IF ~IsNone(chat_id) /\ Val(chat_id) # ""
    THEN <<TouchTask(Val(chat_id), user_email, count)>>
    ELSE <<>>

UUID_SESSION == "uuid-session"
UUID_REQUEST == "uuid-request"

\* ---------------------------------------------------------------------
\* /chat
\* ---------------------------------------------------------------------
ChatRequests(credSet) ==
    { Req("/chat", c, <<>>, m, md, h, cid, u) :
        c \in credSet, m \in ChatMessages, md \in {GEMMA, OTHER_MODEL}, h \in Histories,
        cid \in {None, Some("c1")}, u \in {None, Some(U1)} }

\* the answers /chat can get to its POST
ChatAnswers ==
    { Answer(k, <<>>, None, Usage("absent", None, None, None), d) :
        k \in {"exception", "status_429", "status_500", "bad_json", "no_choices"},
        d \in Durations }
    \cup
    { Answer("answer", <<"answer">>, m, u, d) :
        m \in {None, Some("routed-model")}, u \in Usages, d \in Durations }

\* steps 3 and 4 of chat_with_ai up to the POST: assembly, ids, the user log task
ChatPrepare(memory) ==
    LET a == Assemble(request.history, request.message, request.model, SystemContent(memory))
        session_id == OrElse(request.chat_id, UUID_SESSION)
        user_id == OrElse(request.user_email, "anonymous")
    IN  /\ memory_context' = memory
        /\ messages' = a.messages
        /\ user_message' = a.message
        /\ ids' = [request_id |-> UUID_REQUEST, session_id |-> session_id, user_id |-> user_id]
        /\ background_tasks' = Append(background_tasks,
               LogTask(session_id, user_id, "user", request.model, "success", a.message))
        /\ pc' = "chat_post"

\* POST /chat, up to its first await
chat_with_ai ==
    /\ pc = "start"
    /\ request.endpoint = "/chat"
    /\ LET k == resolve_openrouter_key(request.creds, env_key)
       IN  /\ api_key' = k
           /\ IF IsNone(k)
              THEN /\ response' = Resp401
                   /\ response_sent' = TRUE
                   /\ pc' = "done"
                   /\ UNCHANGED <<loopVars, memory_context, messages, user_message, ids,
                                  background_tasks>>
              ELSE IF is_image_generation_prompt(request.message)
              THEN /\ TranslateEnter(TextToTranslate(request.message))
                   /\ UNCHANGED <<memory_context, messages, user_message, ids, background_tasks>>
              ELSE IF ~IsNone(request.user_email) /\ Val(request.user_email) # ""
              THEN /\ pc' = "chat_memory"
                   /\ UNCHANGED <<loopVars, memory_context, messages, user_message, ids,
                                  background_tasks, response, response_sent>>
              ELSE /\ ChatPrepare(None)
                   /\ UNCHANGED <<loopVars, response, response_sent>>
    /\ UNCHANGED <<procVars, request, env_key, upstream_calls, store_calls, storeVars, upstream, bg_run>>

\* memory_context = await search_user_memory(request.user_email), then on to the POST
ChatSearchMemory ==
    /\ pc = "chat_memory"
    /\ store_calls' = Append(store_calls, "search_user_memory")
    /\ \E m \in search_user_memory(chat_summaries, opensearch_client, StoreAnswers,
                                   Val(request.user_email)) :
           ChatPrepare(m)
    /\ UNCHANGED <<procVars, request, env_key, api_key, upstream_calls, response, response_sent,
                   storeVars, loopVars, upstream, bg_run>>

\* the except branch of chat_with_ai
ChatExcept(tasks) ==
    /\ background_tasks' = Append(tasks,
           LogTask(OrElse(request.chat_id, "unknown"), OrElse(request.user_email, "unknown"),
                   "assistant", request.model, "error", <<"exception">>))
    /\ response' = RespFailure(<<"exception">>)
    /\ response_sent' = TRUE
    /\ pc' = "bg"

\* a failed upstream attempt of /chat is returned to the caller
ChatSurfaces_Absorb(kind) == FALSE

ChatSurfaces(kind) == kind # "answer"

\* await client.post(...) and the handling of its answer up to the next await
ChatPost ==
    /\ pc = "chat_post"
    /\ \E a \in ChatAnswers :
         /\ upstream_calls' = Append(upstream_calls,
                                     Call("FastAPI Chat", request.model, a.kind = "answer"))
         /\ upstream' = a
         /\ IF ~ChatSurfaces(a.kind)
            THEN /\ background_tasks' = Append(background_tasks,
                        LogTask(ids.session_id, ids.user_id, "assistant",
                                OrElse(a.model, request.model), "success", a.content))
                 /\ pc' = "chat_token"
                 /\ UNCHANGED <<response, response_sent>>
            ELSE IF a.kind \in {"status_429", "status_500"}
            THEN /\ background_tasks' = Append(background_tasks,
                        LogTask(ids.session_id, ids.user_id, "assistant", request.model, "error",
                                <<"OpenRouter Error:", a.kind>>))
                 /\ response' = RespFailure(<<"OpenRouter Error:", a.kind>>)
                 /\ response_sent' = TRUE
                 /\ pc' = "bg"
            ELSE ChatExcept(background_tasks)
    /\ UNCHANGED <<procVars, request, env_key, api_key, store_calls, storeVars, loopVars,
                   memory_context, messages, user_message, ids, bg_run>>

TokenDoc(usage, duration_ms, model) ==
    LET n == TokenCounts(usage, duration_ms, "success")
    IN  [request_id |-> ids.request_id, session_id |-> ids.session_id, user_id |-> ids.user_id,
         model |-> model, prompt_tokens |-> n.prompt, completion_tokens |-> n.completion,
         total_tokens |-> n.total, status |-> "success", endpoint |-> "/chat"]

log_token_usage_raises_OnStoreError(usage) == usage.shape = "malformed" \/ ~store_up

\* print(f"USAGE KEYS: {usage.keys()}") raises on a truthy usage that is no dict;
\* every store error is caught inside log_token_usage
log_token_usage_raises(usage) == usage.shape = "malformed"

\* await log_token_usage(...): "SYNCHRONOUSLY (not background task)"
ChatLogTokenUsage ==
    /\ pc = "chat_token"
    /\ store_calls' = Append(store_calls, "log_token_usage")
    /\ IF log_token_usage_raises(upstream.usage)
       THEN /\ ChatExcept(background_tasks)
            /\ UNCHANGED <<opensearch_client, token_usage>>
       ELSE /\ \E r \in Reconnect(opensearch_client, store_up) :
                 /\ opensearch_client' = r.client
                 /\ token_usage' =
                        IF r.proceeds /\ StoreAnswers
                        THEN Append(token_usage,
                                    TokenDoc(upstream.usage, upstream.duration_ms,
                                             OrElse(upstream.model, request.model)))
                        ELSE token_usage
            /\ pc' = "chat_return"
            /\ UNCHANGED <<background_tasks, response, response_sent>>
    /\ UNCHANGED <<procVars, request, env_key, api_key, upstream_calls, store_up, chat_summaries,
                   ai_chat_logs, now, loopVars, memory_context, messages, user_message, ids,
                   upstream, bg_run>>

\* step 5 of chat_with_ai: the quick-update task and the success return
ChatReturn ==
    /\ pc = "chat_return"
    /\ background_tasks' =
           background_tasks \o SummaryTouch(request.chat_id, request.user_email, Len(messages) + 1)
    /\ response' = RespSuccess(upstream.content, OrElse(upstream.model, request.model))
    /\ response_sent' = TRUE
    /\ pc' = "bg"
    /\ UNCHANGED <<procVars, request, env_key, api_key, upstream_calls, store_calls, storeVars, loopVars,
                   memory_context, messages, user_message, ids, upstream, bg_run>>

LogDoc(t) ==
    [session_id |-> t.session_id, user_id |-> t.user_id, role |-> t.role, model |-> t.model,
     status |-> t.status, content_snippet |-> t.content]

\* the response has been sent: the next background task runs
RunBackgroundTask ==
    /\ pc = "bg"
    /\ bg_run < Len(background_tasks)
    /\ LET t == background_tasks[bg_run + 1]
       IN  /\ store_calls' = Append(store_calls, t.fn)
           /\ IF t.fn = "log_to_opensearch"
              THEN /\ \E r \in Reconnect(opensearch_client, store_up) :
                        /\ opensearch_client' = r.client
                        /\ ai_chat_logs' = IF r.proceeds /\ StoreAnswers
                                           THEN Append(ai_chat_logs, LogDoc(t))
                                           ELSE ai_chat_logs
                   /\ UNCHANGED <<chat_summaries, now>>
              ELSE /\ chat_summaries' =
                        quick_update_opensearch(chat_summaries, opensearch_client, StoreAnswers,
                            t.session_id, IF t.user_id = "" THEN None ELSE Some(t.user_id),
                            t.count, now)
                   /\ now' = now + 1
                   /\ UNCHANGED <<opensearch_client, ai_chat_logs>>
    /\ bg_run' = bg_run + 1
    /\ pc' = IF bg_run + 1 = Len(background_tasks) THEN "done" ELSE "bg"
    /\ UNCHANGED <<procVars, request, env_key, api_key, upstream_calls, response, response_sent,
                   store_up, token_usage, loopVars, memory_context, messages, user_message,
                   ids, upstream, background_tasks>>

ChatCreds == {None, Some(<<"k">>)}

InitChat == InitWith(ChatRequests(ChatCreds), {None}, StoreStates, StoredSummaries)

NextChat ==
    \/ chat_with_ai
    \/ ChatSearchMemory
    \/ ChatPost
    \/ ChatLogTokenUsage
    \/ ChatReturn
    \/ RunBackgroundTask
    \/ TranslateAttempt
    \/ TranslateExhausted

SpecChat == InitChat /\ [][NextChat]_vars

\* ---------------------------------------------------------------------
\* The fallback loops: /translate, /summary and /chat/summary
\* ---------------------------------------------------------------------
CascadeCreds == {None, Some(<<"k">>)}

InitCascade ==
    InitWith(TranslateRequests(CascadeCreds) \cup SummaryRequests(CascadeCreds),
             {None}, {<<"client", TRUE>>, <<"client", FALSE>>, <<"None", TRUE>>}, {NoDocs})

NextCascade ==
    \/ translate_text
    \/ TranslateAttempt
    \/ TranslateExhausted
    \/ summarize_chat_session
    \/ summarize_simple
    \/ AnalyzeAttempt
    \/ AnalyzeExhausted

SpecCascade == InitCascade /\ [][NextCascade]_vars

\* ---------------------------------------------------------------------
\* Properties of the fallback loops
\* ---------------------------------------------------------------------
IsPrefix(s, t) == Len(s) <= Len(t) /\ SubSeq(t, 1, Len(s)) = s

Range(s) == { s[i] : i \in 1..Len(s) }

\* the models POSTed to under one X-Title, in call order
ModelsCalled(title) ==
    LET Mine(c) == c.title = title
        mine == SelectSeq(upstream_calls, Mine)
    IN  [i \in 1..Len(mine) |-> mine[i].model]

\* position of a model in SUMMARY_MODELS
SummaryRank(m) == CHOOSE i \in 1..Len(SUMMARY_MODELS) : SUMMARY_MODELS[i] = m

AnalyzeExhaustedDone ==
    /\ pc = "done"
    /\ request.endpoint \in {"/summary", "/chat/summary"}
    /\ Len(ModelsCalled("FastAPI Analyzer")) = Len(SUMMARY_MODELS)
    /\ response.success = "false"

\* C1: the fallback loops of _analyze_chat_logic and _translate_logic POST to
\* the models of their list in list order, each at most once (the calls are a
\* prefix of the list), and no POST follows an attempt that returned an answer.
C1_CascadeInOrder ==
    /\ IsPrefix(ModelsCalled("FastAPI Analyzer"), SUMMARY_MODELS)
    /\ IsPrefix(ModelsCalled("FastAPI Translation API"), TRANSLATE_MODELS)
    /\ \A i \in 1..(Len(upstream_calls) - 1) : ~upstream_calls[i].ok

C1_Witness ==
    /\ pc = "done"
    /\ Len(ModelsCalled("FastAPI Analyzer")) = 3
    /\ upstream_calls[3].ok
    /\ response.success = "true"

\* C3 as claimed: when every model failed, the returned failure lists every
\* attempted model.
C3_FailureListsEveryModel ==
    AnalyzeExhaustedDone =>
        \A i \in 1..Len(upstream_calls) : upstream_calls[i].model \in Range(response.error)

\* C3 amended: when every model failed, _analyze_chat_logic returns one
\* failure whose error is "All models failed. Last error:" followed by the
\* last entry of its errors list only ("Unknown" when the list is empty); the
\* errors list has at most one entry per attempted model, in attempt order,
\* and when all models answered 429 it has one 429 entry per model.
C3_FailureCarriesLastError ==
    AnalyzeExhaustedDone =>
        /\ response.error = <<"All models failed. Last error:">>
                            \o (IF errors = <<>> THEN <<"Unknown">> ELSE errors[Len(errors)])
        /\ Len(response.error) <= 4
        /\ \A i \in 1..Len(errors) : errors[i][1] \in Range(SUMMARY_MODELS)
        /\ \A i, j \in 1..Len(errors) :
               i < j => SummaryRank(errors[i][1]) < SummaryRank(errors[j][1])
        /\ (Len(sleeps) = Len(SUMMARY_MODELS)
               => errors = [i \in 1..Len(SUMMARY_MODELS) |-> <<SUMMARY_MODELS[i], ":", "429">>])

C3_Witness ==
    /\ AnalyzeExhaustedDone
    /\ Len(sleeps) = Len(SUMMARY_MODELS)
    /\ response.error = <<"All models failed. Last error:", SUMMARY_MODELS[5], ":", "429">>

\* ---------------------------------------------------------------------
\* Every endpoint that resolves an API key
\* ---------------------------------------------------------------------
KeyHistories == { <<>>, <<Turn("user", <<"h1">>)>> }

KeyChatRequests ==
    { Req("/chat", c, <<>>, m, md, h, cid, u) :
        c \in AllCreds, m \in ChatMessages, md \in {GEMMA, OTHER_MODEL}, h \in KeyHistories,
        cid \in {None, Some("c1")}, u \in {None, Some(U1)} }

KeySummaryRequests ==
    { Req(ep, c, <<>>, <<>>, "", h, Some("c1"), None) :
        ep \in {"/summary", "/chat/summary"}, c \in AllCreds, h \in KeyHistories }

Init ==
    InitWith(KeyChatRequests \cup KeySummaryRequests \cup TranslateRequests(AllCreds),
             AllEnvKeys, {<<"client", TRUE>>, <<"None", FALSE>>}, StoredSummaries)

Next ==
    \/ chat_with_ai
    \/ ChatSearchMemory
    \/ ChatPost
    \/ ChatLogTokenUsage
    \/ ChatReturn
    \/ RunBackgroundTask
    \/ translate_text
    \/ TranslateAttempt
    \/ TranslateExhausted
    \/ summarize_chat_session
    \/ summarize_simple
    \/ AnalyzeAttempt
    \/ AnalyzeExhausted

Spec == Init /\ [][Next]_vars

\* ---------------------------------------------------------------------
\* Properties of key resolution
\* ---------------------------------------------------------------------
KeyResolved == pc # "start"

HasText(o) == ~IsNone(o) /\ Val(o) # <<>>

\* nothing has been done for the request
NothingDone ==
    /\ upstream_calls = <<>>
    /\ store_calls = <<>>
    /\ background_tasks = <<>>
    /\ ai_chat_logs = <<>>
    /\ token_usage = <<>>
    /\ IsNone(memory_context)

Rejected401 == pc = "done" /\ response = Resp401 /\ NothingDone

\* C4 as claimed: the key is the bearer credential whenever one is
\* present and non-empty, otherwise the environment variable, and 401 with
\* nothing done when neither exists.
C4_KeyIsCredentialAsSent ==
    KeyResolved =>
        IF HasText(request.creds) THEN api_key = request.creds
        ELSE IF HasText(env_key) THEN api_key = env_key
        ELSE Rejected401

\* C4 amended: the key is the bearer credential with its surrounding
\* whitespace stripped when that is non-empty, otherwise the non-empty
\* OPENROUTER_API_KEY; when neither exists the endpoint answers 401 and has
\* made no upstream call, memory lookup or telemetry write.
C4_KeyIsStrippedCredential ==
    KeyResolved =>
        LET stripped == IF IsNone(request.creds) THEN <<>> ELSE Strip(Val(request.creds))
        IN  IF stripped # <<>> THEN api_key = Some(stripped) /\ response.code # 401
            ELSE IF HasText(env_key) THEN api_key = env_key /\ response.code # 401
            ELSE Rejected401

C4_Witness ==
    /\ pc = "done"
    /\ request.creds = Some(<<WS, "k">>)
    /\ env_key = Some(<<"e">>)
    /\ api_key = Some(<<"k">>)
    /\ upstream_calls # <<>>

C4_Witness401 ==
    /\ Rejected401
    /\ request.creds = Some(<<WS>>)
    /\ env_key = Some(<<>>)

\* ---------------------------------------------------------------------
\* Properties of /chat
\* ---------------------------------------------------------------------
IsChat == request.endpoint = "/chat"

\* the request got past key resolution and is not an image prompt
IsPlainChat == IsChat /\ ~IsNone(api_key) /\ ~is_image_generation_prompt(request.message)

Assembled == IsPlainChat /\ pc \notin {"start", "chat_memory"}

TasksOfRole(role) ==
    { i \in 1..Len(background_tasks) :
        background_tasks[i].fn = "log_to_opensearch" /\ background_tasks[i].role = role }

\* C2 as claimed: a failure of /chat reaches the caller only after a
\* further model has been tried.
C2_FailureOnlyAfterFallback ==
    (IsPlainChat /\ response_sent /\ response.success = "false" /\ upstream_calls # <<>>)
        => Len(upstream_calls) >= 2

\* C2 amended: a /chat request that is not an image prompt makes exactly one
\* upstream attempt, to the model named in the request; when that attempt is
\* rate-limited or fails otherwise, no other model is tried and the failure
\* is returned to the caller as success=false.
C2_SingleAttemptSurfaced ==
    IsPlainChat =>
        /\ Len(upstream_calls) <= 1
        /\ \A i \in 1..Len(upstream_calls) :
               upstream_calls[i].title = "FastAPI Chat" /\ upstream_calls[i].model = request.model
        /\ (upstream_calls # <<>> /\ ~upstream_calls[1].ok)
               => (response_sent /\ response.success = "false" /\ response.error # <<>>)
        /\ (response_sent /\ response.success = "false") => Len(upstream_calls) = 1

C2_Witness ==
    /\ IsPlainChat
    /\ pc = "done"
    /\ upstream.kind = "status_429"
    /\ upstream_calls = <<Call("FastAPI Chat", request.model, FALSE)>>
    /\ response = RespFailure(<<"OpenRouter Error:", "status_429">>)

\* C5 as claimed: every /chat request past key resolution records exactly
\* one user-turn event and exactly one assistant-turn event.
C5_OneEventPerTurn ==
    (IsChat /\ ~IsNone(api_key) /\ response_sent)
        => (Cardinality(TasksOfRole("user")) = 1 /\ Cardinality(TasksOfRole("assistant")) = 1)

\* C6 as claimed: no telemetry or token-usage write is awaited before the
\* response, and no error raised while recording changes the response.
C6_TelemetryOutOfBand ==
    IsChat =>
        /\ ~response_sent => store_calls \in {<<>>, <<"search_user_memory">>}
        /\ (response_sent /\ IsPlainChat /\ upstream.kind = "answer") => response.success = "true"

\* C6 amended: the user-turn and assistant-turn events are written by
\* log_to_opensearch only after the response has been produced, so they
\* cannot change it; the token-usage record is written by an awaited call
\* before the success response is produced, and a store that is absent or
\* fails during that call does not change the response (the write is
\* skipped).
C6_TurnEventsOutOfBand ==
    IsChat =>
        /\ ~response_sent =>
              /\ "log_to_opensearch" \notin Range(store_calls)
              /\ "quick_update_opensearch" \notin Range(store_calls)
              /\ ai_chat_logs = <<>>
              /\ bg_run = 0
        /\ (IsPlainChat /\ response_sent /\ response.success = "true")
              => "log_token_usage" \in Range(store_calls)
        /\ (IsPlainChat /\ response_sent /\ upstream.kind = "answer"
                /\ upstream.usage.shape # "malformed")
              => response = RespSuccess(upstream.content, OrElse(upstream.model, request.model))
        /\ ~store_up => token_usage = <<>> /\ ai_chat_logs = <<>>

C6_Witness ==
    /\ IsPlainChat
    /\ pc = "chat_return"
    /\ ~response_sent
    /\ ~store_up
    /\ store_calls # <<>>
    /\ store_calls[Len(store_calls)] = "log_token_usage"

\* the store is absent or does not answer
StoreDown == ~store_up \/ opensearch_client = "None"

\* C7: with the document store absent, unreachable or failing, the memory
\* lookup of /chat yields None, the messages sent upstream carry the bare
\* system directive, and an upstream answer is returned as the normal
\* success response.
C7_StoreFailureIsolated ==
    (IsPlainChat /\ StoreDown) =>
        /\ IsNone(memory_context)
        /\ pc \notin {"start", "chat_memory"}
              => messages = Assemble(request.history, request.message, request.model,
                                     SYSTEM_DIRECTIVE).messages
        /\ (response_sent /\ upstream.kind = "answer" /\ upstream.usage.shape # "malformed")
              => response = RespSuccess(upstream.content, OrElse(upstream.model, request.model))
        /\ response.code \in {0, 200}

C7_Witness ==
    /\ IsPlainChat
    /\ ~store_up
    /\ opensearch_client = "client"
    /\ pc = "done"
    /\ store_calls[1] = "search_user_memory"
    /\ ~IsNone(chat_summaries["c0"])
    /\ ~IsNone(Val(chat_summaries["c0"]).summary)
    /\ response.success = "true"

\* C8 as claimed: a /chat response has success=true only when an upstream
\* attempt succeeded and its message is the one returned.
C8_SuccessOnlyFromUpstream ==
    (IsChat /\ response_sent /\ response.code = 200) =>
        IF upstream_calls # <<>> /\ upstream_calls[Len(upstream_calls)].ok
        THEN response.success = "true"
                => response.message = (IF IsPlainChat THEN upstream.content ELSE TRANSLATED)
        ELSE response.success = "false" /\ response.error # <<>>

\* C9: for a model that accepts the system role, a history that is empty or
\* does not start with a system turn gets one system turn carrying the
\* directive put in front of it, all its turns kept after it in order; with
\* an empty history and no memory the list is the directive turn and the user
\* turn.
C9_SystemTurnPrepended ==
    (Assembled /\ ~is_no_system_role_model(request.model)) =>
        /\ (request.history = <<>> \/ request.history[1].role # "system") =>
              /\ Len(messages) = Len(request.history) + 2
              /\ messages[1].role = "system"
              /\ IsPrefix(SYSTEM_DIRECTIVE, messages[1].content)
              /\ SubSeq(messages, 2, Len(request.history) + 1) = request.history
        /\ (request.history = <<>> /\ IsNone(memory_context)) =>
              messages = <<Turn("system", SYSTEM_DIRECTIVE), Turn("user", request.message)>>

C9_Witness ==
    /\ Assembled
    /\ pc = "chat_post"
    /\ request.model = OTHER_MODEL
    /\ Len(request.history) = 2
    /\ request.history[1].role = "assistant"
    /\ messages[2] = request.history[1]

MemoryFound == Assembled /\ ~IsNone(memory_context) /\ ~is_no_system_role_model(request.model)

\* C10 as claimed: a found memory context is its own system turn at index 1,
\* after the directive turn at index 0.
C10_MemoryIsSecondTurn ==
    MemoryFound =>
        /\ messages[1] = Turn("system", SYSTEM_DIRECTIVE)
        /\ messages[2].role = "system"
        /\ IsPrefix(Val(memory_context), LastN(messages[2].content, Len(Val(memory_context))))

\* C10 amended: a found memory context is appended, under the long-term
\* memory header, to the directive inside the content of the one system turn
\* at index 0; no turn is added for it, and the turn at index 1 is the next
\* history turn or the new user message.
C10_MemoryInDirectiveTurn ==
    MemoryFound =>
        LET inserted == request.history = <<>> \/ request.history[1].role # "system"
            rest == IF inserted THEN request.history ELSE Tail(request.history)
        IN  /\ messages[1] = Turn("system", SYSTEM_DIRECTIVE \o <<NL, MEMORY_HEADER, NL>>
                                            \o Val(memory_context))
            /\ messages = <<messages[1]>> \o rest \o <<Turn("user", request.message)>>

C10_Witness ==
    /\ MemoryFound
    /\ pc = "chat_post"
    /\ request.history = <<>>
    /\ Len(messages) = 2
    /\ messages[2] = Turn("user", request.message)

\* ---------------------------------------------------------------------
\* Properties of the token-usage documents
\* ---------------------------------------------------------------------
\* the three counts of document d are the three values of usage object u
CountsFromUpstream(d, u) ==
    /\ u.shape = "dict"
    /\ ~IsNone(u.prompt) /\ ~IsNone(u.completion) /\ ~IsNone(u.total)
    /\ d.prompt_tokens = u.prompt
    /\ d.completion_tokens = u.completion
    /\ d.total_tokens = u.total

\* the three counts of document d are the heuristic estimate for a call
\* that took ms milliseconds
CountsEstimated(d, ms) ==
    LET e == Max(100, ms \div 10)
    IN  /\ d.total_tokens = Some(e)
        /\ d.prompt_tokens = Some(e \div 2)
        /\ d.completion_tokens = Some(e \div 2)

\* C11 as claimed: every token-usage document carries either the three
\* upstream counts or three estimates, never a mix of upstream values with
\* estimated or missing ones, whatever the shape of the usage object.
C11_CountsAllOrNothing ==
    \A i \in 1..Len(token_usage) :
        \/ CountsFromUpstream(token_usage[i], upstream.usage)
        \/ CountsEstimated(token_usage[i], upstream.duration_ms)

\* the document C11 fails on: the upstream total beside missing parts
C11_MixedDocument ==
    /\ token_usage # <<>>
    /\ upstream.usage = Usage("dict", None, None, Some(30))
    /\ token_usage[1].total_tokens = Some(30)
    /\ IsNone(token_usage[1].prompt_tokens)
    /\ IsNone(token_usage[1].completion_tokens)

\* ---------------------------------------------------------------------
\* Properties of the rate-limit handling of the fallback loops
\* ---------------------------------------------------------------------
\* the entries of errors recorded for a 429 answer
RateLimitedErrors ==
    LET Is429(e) == Len(e) = 3 /\ e[3] = "429"
    IN  SelectSeq(errors, Is429)

\* no two consecutive POSTs go to the same model
NeverSameModelAgain ==
    \A i \in 1..(Len(upstream_calls) - 1) :
        upstream_calls[i].model # upstream_calls[i + 1].model

\* C20 as claimed: after a rate-limited attempt the cascade waits a delay
\* that increases with the attempt index, then proceeds to the next model
\* and never re-issues the request to the rate-limited model.
C20_DelayGrowsWithAttempt ==
    /\ \A i, j \in 1..Len(sleeps) : i < j => sleeps[i] < sleeps[j]
    /\ NeverSameModelAgain

\* C20 amended: after a 429 answer _analyze_chat_logic sleeps a constant one
\* second, whatever the attempt index, once per rate-limited attempt, and
\* then goes on to the next model of SUMMARY_MODELS; it never re-issues the
\* request to the rate-limited model.  _translate_logic does not sleep.
C20_ConstantDelayThenNextModel ==
    /\ \A i \in 1..Len(sleeps) : sleeps[i] = 1
    /\ request.endpoint \in {"/summary", "/chat/summary"}
           => Len(sleeps) = Len(RateLimitedErrors)
    /\ request.endpoint = "/translate" => sleeps = <<>>
    /\ NeverSameModelAgain
    /\ (pc = "an_loop" /\ errors # <<>>) => loop_idx = Len(upstream_calls) + 1

C20_Witness ==
    /\ pc = "done"
    /\ request.endpoint = "/summary"
    /\ sleeps = <<1, 1>>
    /\ errors = <<<<SUMMARY_MODELS[1], ":", "429">>, <<SUMMARY_MODELS[2], ":", "429">>>>
    /\ ModelsCalled("FastAPI Analyzer") = SubSeq(SUMMARY_MODELS, 1, 3)
    /\ response.success = "true"

\* ---------------------------------------------------------------------
\* Properties of the summarization job
\* ---------------------------------------------------------------------
\* the request has entered _analyze_chat_logic
InSummaryJob ==
    /\ request.endpoint \in {"/summary", "/chat/summary"}
    /\ ~IsNone(api_key)

\* the awaited index_chat_summary calls made so far
IndexCalls ==
    LET IsIndex(c) == c = "index_chat_summary"
    IN  Len(SelectSeq(store_calls, IsIndex))

\* C16: _analyze_chat_logic never raises.  Each run ends in a returned
\* success, reached only after a model answered and after exactly one
\* index_chat_summary call for the chat_id of the request (which stores the
\* returned summary when the store is available), or in a returned failure
\* ("No conversation to analyze" or "All models failed...") with no
\* index_chat_summary call and the stored summaries untouched.
C16_SuccessAfterOneUpsertElseFailure ==
    InSummaryJob =>
        /\ pc = "done" => (response.code = 200 /\ response.success \in {"true", "false"})
        /\ pc # "done" => (response = NoResponse /\ IndexCalls = 0)
        /\ response.success = "true" =>
               /\ upstream_calls # <<>>
               /\ upstream_calls[Len(upstream_calls)].ok
               /\ IndexCalls = 1
               /\ (opensearch_client = "client" /\ store_up) =>
                      /\ ~IsNone(chat_summaries[Val(request.chat_id)])
                      /\ Val(chat_summaries[Val(request.chat_id)]).summary = Some(response.message)
                      /\ Val(chat_summaries[Val(request.chat_id)]).message_count
                             = Len(request.history)
        /\ response.success = "false" =>
               /\ IndexCalls = 0
               /\ chat_summaries = NoDocs
               /\ \A i \in 1..Len(upstream_calls) : ~upstream_calls[i].ok
               /\ \/ response.error = <<"No conversation to analyze">> /\ upstream_calls = <<>>
                  \/ /\ response.error[1] = "All models failed. Last error:"
                     /\ Len(upstream_calls) = Len(SUMMARY_MODELS)

C16_Witness ==
    /\ InSummaryJob
    /\ pc = "done"
    /\ response.success = "true"
    /\ Len(upstream_calls) = 2
    /\ IndexCalls = 1
    /\ ~IsNone(chat_summaries["c1"])
    /\ Val(chat_summaries["c1"]).summary = Some(<<"free", "text">>)

C16_WitnessFailure ==
    /\ InSummaryJob
    /\ pc = "done"
    /\ response.success = "false"
    /\ Len(upstream_calls) = Len(SUMMARY_MODELS)
    /\ IndexCalls = 0

\* ---------------------------------------------------------------------
\* Properties of /chat without a chat_id
\* ---------------------------------------------------------------------
NoChatId == IsChat /\ IsNone(request.chat_id)

\* the store was reachable through a set handle for the whole request
StoreServing == opensearch_client = "client" /\ store_up

TelemetryUnderGeneratedId ==
    (NoChatId /\ IsPlainChat /\ ~IsNone(api_key) /\ StoreServing /\ pc = "done") =>
        /\ Len(ai_chat_logs) >= 2
        /\ ai_chat_logs[1].session_id = UUID_SESSION
        /\ \A i \in 1..Len(ai_chat_logs) : ai_chat_logs[i].session_id \in {UUID_SESSION, "unknown"}
        /\ (upstream.kind = "answer" /\ upstream.usage.shape # "malformed") =>
               (Len(token_usage) = 1 /\ token_usage[1].session_id = UUID_SESSION)

\* no quick-update was queued or run for a request without chat_id
NoTouchQueued ==
    NoChatId =>
        /\ \A i \in 1..Len(background_tasks) : background_tasks[i].fn # "quick_update_opensearch"
        /\ \A i \in 1..Len(store_calls) : store_calls[i] # "quick_update_opensearch"

MaxOps == 3

\* HTTPException(status_code=503, detail="OpenSearch unavailable")
Resp503 == [code |-> 503, success |-> "none", message |-> <<>>,
            error |-> <<"OpenSearch unavailable">>, model |-> ""]

\* a dashboard handler returned its dictionary
RespDashboard == [code |-> 200, success |-> "none", message |-> <<>>, error |-> <<>>, model |-> ""]

\* startup_event: the handle it leaves and whether startup completes.  The
\* handle is assigned before the ping, so it stays set when the ping answers
\* False or raises; it stays None when build_opensearch_client() raises.
StartupOutcomes(up) ==
    IF up THEN { [client |-> "client", started |-> TRUE] }
    ELSE { [client |-> "client", started |-> TRUE], [client |-> "None", started |-> TRUE] }

get_chat_summary_Title(docs, client, up, chat_id) ==
    IF client = "None" \/ ~up \/ IsNone(docs[chat_id]) THEN None
    ELSE Val(docs[chat_id]).title

\* get_chat_summary(chat_id): _source.get("summary") of the document, else None
get_chat_summary(docs, client, up, chat_id) ==
    IF client = "None" THEN None
    ELSE IF ~up THEN None
    ELSE IF IsNone(docs[chat_id]) THEN None
    ELSE Val(docs[chat_id]).summary

GuardFallback_Raises == Resp503

\* "except HTTPException: return {...}": the answer of a dashboard handler
\* whose get_opensearch_or_raise() raised
GuardFallback == RespDashboard

RECURSIVE SumTotalTokens(_)
\* the sum aggregation over total_tokens
SumTotalTokens(docs) ==
    IF docs = <<>> THEN 0
    ELSE (IF IsNone(Head(docs).total_tokens) THEN 0 ELSE Val(Head(docs).total_tokens))
         + SumTotalTokens(Tail(docs))

\* the filter aggregation status = "error"
ErrorCount(docs) ==
    LET IsError(d) == d.status = "error"
    IN  Len(SelectSeq(docs, IsError))

\* one finished call: the adapter, its arguments and what it returned
Op(op, chat_id, user_email, summary, serving) ==
    [op |-> op, chat_id |-> chat_id, user_email |-> user_email, summary |-> summary,
     serving |-> serving]

\* no request is being served while the adapters are exercised
NoRequest == Req("", None, <<>>, <<>>, "", <<>>, None, None)

InitStore ==
    /\ pc = "boot"
    /\ request = NoRequest
    /\ env_key = None
    /\ opensearch_client = "None"
    /\ store_up \in BOOLEAN
    /\ chat_summaries = NoDocs
    /\ ai_chat_logs = <<>>
    /\ token_usage = <<>>
    /\ now = 2
    /\ api_key = None
    /\ text = <<>>
    /\ errors = <<>>
    /\ loop_idx = 0
    /\ sleeps = <<>>
    /\ upstream_calls = <<>>
    /\ store_calls = <<>>
    /\ memory_context = None
    /\ messages = <<>>
    /\ user_message = <<>>
    /\ ids = [request_id |-> UUID_REQUEST, session_id |-> UUID_SESSION, user_id |-> "anonymous"]
    /\ upstream = NoAnswer
    /\ background_tasks = <<>>
    /\ bg_run = 0
    /\ response_sent = FALSE
    /\ response = NoResponse
    /\ op_log = <<>>
    /\ fetched = None
    /\ dashboard = NoDashboard
    /\ page = NoPage
    /\ extract_body = {}
    /\ InitMem

\* what no adapter call touches
requestVars == <<request, env_key, api_key, upstream_calls, response_sent, loopVars,
                 messages, user_message, ids, upstream, background_tasks, bg_run, extractVars, memVars>>

\* @app.on_event("startup")
startup_event ==
    /\ pc = "boot"
    /\ \E o \in StartupOutcomes(store_up) :
         /\ opensearch_client' = o.client
         /\ pc' = IF o.started THEN "serving" ELSE "crashed"
    /\ UNCHANGED <<requestVars, procVars, store_calls, store_up, chat_summaries, ai_chat_logs,
                   token_usage, now, memory_context, response>>

\* the guard shared by the calls below
Serving == pc = "serving" /\ Len(op_log) < MaxOps

StoreServes == opensearch_client = "client" /\ store_up

\* await index_chat_summary({"index": "chat_summaries", "id": chat_id, "body": doc})
\* with the document _analyze_chat_logic builds
StoreIndexSummary ==
    /\ Serving
    /\ \E c \in ChatIds, u \in {None, Some(U1)}, content \in AnalyzeContents :
         LET doc == AnalysisDoc(u, ParseSummary(content), now, 1)
         IN  /\ chat_summaries' = index_chat_summary(chat_summaries, opensearch_client,
                                                     StoreAnswers, c, doc)
             /\ op_log' = Append(op_log, Op("index_chat_summary", Some(c), u, doc.summary,
                                            StoreServes))
    /\ store_calls' = Append(store_calls, "index_chat_summary")
    /\ now' = now + 1
    /\ UNCHANGED <<requestVars, pc, opensearch_client, store_up, ai_chat_logs, token_usage,
                   memory_context, response, fetched, dashboard>>

\* await quick_update_opensearch(chat_id, user_email, message_count)
StoreQuickUpdate ==
    /\ Serving
    /\ \E c \in ChatIds, u \in {None, Some(U1)} :
         /\ chat_summaries' = quick_update_opensearch(chat_summaries, opensearch_client,
                                                      StoreAnswers, c, u, 2, now)
         /\ op_log' = Append(op_log, Op("quick_update_opensearch", Some(c), u, None, StoreServes))
    /\ store_calls' = Append(store_calls, "quick_update_opensearch")
    /\ now' = now + 1
    /\ UNCHANGED <<requestVars, pc, opensearch_client, store_up, ai_chat_logs, token_usage,
                   memory_context, response, fetched, dashboard>>

\* await get_chat_summary(chat_id)
StoreGetSummary ==
    /\ Serving
    /\ \E c \in ChatIds :
         /\ fetched' = get_chat_summary(chat_summaries, opensearch_client, StoreAnswers, c)
         /\ op_log' = Append(op_log, Op("get_chat_summary", Some(c), None, None, StoreServes))
    /\ store_calls' = Append(store_calls, "get_chat_summary")
    /\ UNCHANGED <<requestVars, pc, storeVars, memory_context, response, dashboard>>

\* await search_user_memory(user_email)
StoreSearchMemory ==
    /\ Serving
    /\ \E m \in search_user_memory(chat_summaries, opensearch_client, StoreAnswers, U1) :
         memory_context' = m
    /\ op_log' = Append(op_log, Op("search_user_memory", None, Some(U1), None, StoreServes))
    /\ store_calls' = Append(store_calls, "search_user_memory")
    /\ UNCHANGED <<requestVars, pc, storeVars, response, fetched, dashboard>>

\* await log_to_opensearch(...)
StoreLog ==
    /\ Serving
    /\ \E status \in {"success", "error"}, r \in Reconnect(opensearch_client, store_up) :
         /\ opensearch_client' = r.client
         /\ ai_chat_logs' =
                IF r.proceeds /\ StoreAnswers
                THEN Append(ai_chat_logs,
                            LogDoc(LogTask(ids.session_id, ids.user_id, "assistant", OTHER_MODEL,
                                           status, <<"answer">>)))
                ELSE ai_chat_logs
    /\ op_log' = Append(op_log, Op("log_to_opensearch", None, None, None, StoreServes))
    /\ store_calls' = Append(store_calls, "log_to_opensearch")
    /\ UNCHANGED <<requestVars, pc, store_up, chat_summaries, token_usage, now, memory_context,
                   response, fetched, dashboard>>

\* await log_token_usage(...) with a usage object that is absent or a dict
StoreLogTokenUsage ==
    /\ Serving
    /\ \E u \in { x \in Usages : ~log_token_usage_raises(x) },
          r \in Reconnect(opensearch_client, store_up) :
         /\ opensearch_client' = r.client
         /\ token_usage' =
                IF r.proceeds /\ StoreAnswers
                THEN Append(token_usage, TokenDoc(u, 300, OTHER_MODEL))
                ELSE token_usage
    /\ op_log' = Append(op_log, Op("log_token_usage", None, None, None, StoreServes))
    /\ store_calls' = Append(store_calls, "log_token_usage")
    /\ UNCHANGED <<requestVars, pc, store_up, chat_summaries, ai_chat_logs, now, memory_context,
                   response, fetched, dashboard>>

\* a dashboard handler: the guard, the search, the totals read off its answer
DashboardHandler(name, totals) ==
    /\ Serving
    /\ \E r \in Reconnect(opensearch_client, store_up) :
         /\ opensearch_client' = r.client
         /\ IF ~r.proceeds
            THEN /\ response' = GuardFallback
                 /\ dashboard' = NoDashboard
            ELSE /\ response' = RespDashboard
                 /\ dashboard' = IF StoreAnswers THEN totals ELSE NoDashboard
    /\ op_log' = Append(op_log, Op(name, None, None, None, StoreServes))
    /\ UNCHANGED <<requestVars, pc, store_calls, store_up, chat_summaries, ai_chat_logs,
                   token_usage, now, memory_context, fetched>>

\* GET /api/dashboard/token-usage
dashboard_token_usage ==
    DashboardHandler("dashboard_token_usage",
                     Dashboard(SumTotalTokens(token_usage), Len(token_usage), 0, 0))

\* GET /api/dashboard/summary
dashboard_summary ==
    DashboardHandler("dashboard_summary",
                     Dashboard(0, 0, Len(ai_chat_logs), ErrorCount(ai_chat_logs)))

NextStore ==
    \/ startup_event
    \/ StoreIndexSummary
    \/ StoreQuickUpdate
    \/ StoreGetSummary
    \/ StoreSearchMemory
    \/ StoreLog
    \/ StoreLogTokenUsage
    \/ dashboard_token_usage
    \/ dashboard_summary

SpecStore == InitStore /\ [][NextStore]_vars

\* ---------------------------------------------------------------------
\* Properties of the store adapters
\* ---------------------------------------------------------------------
LastOp == op_log[Len(op_log)]

\* the fields of a chat_summaries document that may be absent
OptionalFields == {"user_email", "title", "summary", "topics"}

HasField(doc, f) == ~IsNone(doc[f])

\* the fields the write recorded as op supplies with a value
Supplied(op) ==
    (IF op.op = "index_chat_summary" THEN {"title", "summary", "topics"} ELSE {})
    \cup (IF ~IsNone(op.user_email) /\ Val(op.user_email) # "" THEN {"user_email"} ELSE {})

\* C12 as claimed: a summary write or a quick-touch merges into the stored
\* document of its chat_id: the document stays, and every field that had a
\* value and is not supplied by the write keeps that value.
C12_WritesKeepStoredFields ==
    [][\A c \in ChatIds :
          (op_log' # op_log /\ ~IsNone(chat_summaries[c])) =>
              /\ ~IsNone(chat_summaries'[c])
              /\ \A f \in OptionalFields :
                    (HasField(Val(chat_summaries[c]), f) /\ f \notin Supplied(op_log'[Len(op_log')]))
                        => Val(chat_summaries'[c])[f] = Val(chat_summaries[c])[f]
      ]_vars

\* the state C12 fails in: the user_email a quick-touch stored is gone after
\* a summary write made without user_email
C12_UserEmailLost ==
    /\ Len(op_log) = 2
    /\ op_log[1] = Op("quick_update_opensearch", Some("c1"), Some(U1), None, TRUE)
    /\ op_log[2].op = "index_chat_summary" /\ op_log[2].chat_id = Some("c1")
    /\ ~IsNone(chat_summaries["c1"])
    /\ IsNone(Val(chat_summaries["c1"]).user_email)

\* C13: with the store available, get_chat_summary(chat_id) returns the
\* summary text of the last index_chat_summary write to that chat_id (quick
\* updates in between do not change it).
C13_RoundTrip ==
    (op_log # <<>> /\ LastOp.op = "get_chat_summary") =>
        \A j \in 1..(Len(op_log) - 1) :
            ( /\ op_log[j].op = "index_chat_summary"
              /\ op_log[j].chat_id = LastOp.chat_id
              /\ op_log[j].serving
              /\ \A k \in (j + 1)..(Len(op_log) - 1) :
                     ~(op_log[k].op = "index_chat_summary" /\ op_log[k].chat_id = LastOp.chat_id) )
            => fetched = op_log[j].summary

C13_Witness ==
    /\ Len(op_log) = 2
    /\ op_log[1] = Op("index_chat_summary", Some("c1"), Some(U1), Some(<<"S">>), TRUE)
    /\ op_log[2] = Op("get_chat_summary", Some("c1"), None, None, TRUE)
    /\ fetched = Some(<<"S">>)

\* C15: when the store is unavailable at startup and stays unavailable,
\* startup completes and every later store-dependent call returns its
\* default or does nothing: no document is written, memory reads and summary
\* reads return None, the dashboards return their zero totals, and no call
\* fails its caller.
C15_DegradesToDefaults ==
    ~store_up =>
        /\ pc # "crashed"
        /\ op_log # <<>> => pc = "serving"
        /\ chat_summaries = NoDocs /\ ai_chat_logs = <<>> /\ token_usage = <<>>
        /\ memory_context = None
        /\ fetched = None
        /\ dashboard = NoDashboard
        /\ response \in {NoResponse, RespDashboard}

C15_Witness ==
    /\ ~store_up
    /\ pc = "serving"
    /\ Len(op_log) = 3
    /\ op_log[1].op = "index_chat_summary"
    /\ op_log[2].op = "get_chat_summary"
    /\ op_log[3].op = "dashboard_token_usage"
    /\ opensearch_client = "None"
    /\ response = RespDashboard

\* ---------------------------------------------------------------------
\* POST /extract
\* ---------------------------------------------------------------------
MaxMetas == 2

\* <meta property=... content=...>; a property is its prefix and the rest
Meta(property, content) == [property |-> property, content |-> content]

Metas == { Meta(p, c) : p \in {<<"og:", "title">>, <<"og:", "image">>, <<"twitter:", "card">>},
                        c \in {<<>>, <<"v1">>, <<"v2">>} }

MetaLists == UNION { [1..n -> Metas] : n \in 0..MaxMetas }

Titles == { Title(FALSE, None), Title(TRUE, None), Title(TRUE, Some(<<WS, "T", WS>>)) }

\* the pages and failures the GET can meet
Pages ==
    { Page("ok", 200, m, t) : m \in MetaLists, t \in Titles }
    \cup { Page("request_error", 0, <<>>, Title(FALSE, None)) }
    \cup { Page("http_status", s, <<>>, Title(FALSE, None)) : s \in {404, 503} }

URL == <<"http://example.com/">>

ExtractRequests == { Req("/extract", None, URL, <<>>, "", <<>>, None, None) }

\* raise HTTPException(status_code=..., detail=...)
RespError(code, detail) ==
    [code |-> code, success |-> "none", message |-> <<>>, error |-> detail, model |-> ""]

\* an exception no handler catches
Resp500 == RespError(500, <<"Internal Server Error">>)

\* the 200 answer of /extract; its JSON is in extract_body
RespExtract == [code |-> 200, success |-> "true", message |-> <<>>, error |-> <<>>, model |-> ""]

ExtractError_Always400(p) == RespError(400, <<"Error fetching URL:", p.kind>>)

\* the two except branches around the GET
ExtractError(p) ==
    IF p.kind = "http_status"
    THEN RespError(p.status, <<"HTTP error:", "HTTPStatusError">>)
    ELSE RespError(400, <<"Error fetching URL:", "RequestError">>)

\* prop and prop.startswith("og:") and tag.get("content")
IsOgTag(m) == m.property # <<>> /\ Head(m.property) = "og:" /\ m.content # <<>>

\* og_tags: for each og: property the content of its last tag that has one
OgTags(metas) ==
    { <<metas[i].property, metas[i].content>> :
        i \in { k \in 1..Len(metas) :
                  /\ IsOgTag(metas[k])
                  /\ \A j \in (k + 1)..Len(metas) :
                         ~(IsOgTag(metas[j]) /\ metas[j].property = metas[k].property) } }

\* soup.title.string.strip() raises when the title element has no string
TitleRaises(t) == t.present /\ IsNone(t.string)

\* page_title
PageTitle(t) == IF t.present THEN Some(Strip(Val(t.string))) ELSE None

\* a leaf of a JSON object: the keys leading to it and its value
Leaf(path, value) == <<path, value>>

\* {"success": True, "data": {"url": url, "page_title": page_title, "og": og_tags}}
ExtractBody(url, p) ==
    { Leaf(<<"success">>, Some(<<"true">>)),
      Leaf(<<"data", "url">>, Some(url)),
      Leaf(<<"data", "page_title">>, PageTitle(p.title)) }
    \cup { Leaf(<<"data", "og">> \o og[1], Some(og[2])) : og \in OgTags(p.metas) }

\* POST /extract up to the end of the try block around the GET
extract_og ==
    /\ pc = "start"
    /\ request.endpoint = "/extract"
    /\ \E p \in Pages :
         /\ page' = p
         /\ IF p.kind = "ok"
            THEN /\ pc' = "extract_parse"
                 /\ UNCHANGED <<response, response_sent>>
            ELSE /\ response' = ExtractError(p)
                 /\ response_sent' = TRUE
                 /\ pc' = "done"
    /\ UNCHANGED <<request, env_key, api_key, upstream_calls, store_calls, storeVars, loopVars,
                   chatVars, op_log, fetched, dashboard, extract_body, memVars>>

\* the parse of the fetched page and the return
ExtractParse ==
    /\ pc = "extract_parse"
    /\ IF TitleRaises(page.title)
       THEN /\ response' = Resp500
            /\ UNCHANGED extract_body
       ELSE /\ response' = RespExtract
            /\ extract_body' = ExtractBody(request.text, page)
    /\ response_sent' = TRUE
    /\ pc' = "done"
    /\ UNCHANGED <<request, env_key, api_key, upstream_calls, store_calls, storeVars, loopVars,
                   chatVars, op_log, fetched, dashboard, page, memVars>>

InitExtract == InitWith(ExtractRequests, {None}, {<<"None", TRUE>>}, {NoDocs})

NextExtract ==
    \/ extract_og
    \/ ExtractParse

SpecExtract == InitExtract /\ [][NextExtract]_vars

\* ---------------------------------------------------------------------
\* Properties of /extract
\* ---------------------------------------------------------------------
ExtractDone == request.endpoint = "/extract" /\ pc = "done"

\* C17: when the GET of the target URL fails, /extract raises an HTTP error
\* and returns no body: 400 with a detail starting "Error fetching URL:" for
\* a transport failure, the status code of the fetched page with a detail
\* starting "HTTP error:" for a non-success status.
C17_FetchFailureIsHttpError ==
    (ExtractDone /\ page.kind # "ok") =>
        /\ extract_body = {}
        /\ response.success # "true"
        /\ page.kind = "request_error" =>
               (response.code = 400 /\ Head(response.error) = "Error fetching URL:")
        /\ page.kind = "http_status" =>
               (response.code = page.status /\ Head(response.error) = "HTTP error:")

C17_Witness ==
    /\ ExtractDone
    /\ page.kind = "http_status"
    /\ page.status = 404
    /\ response = RespError(404, <<"HTTP error:", "HTTPStatusError">>)

C17_WitnessTransport ==
    /\ ExtractDone
    /\ page.kind = "request_error"
    /\ response.code = 400

\* C18 as claimed: on a successful fetch /extract answers 200 with a JSON
\* object that maps each og: property of the page to its content at the top
\* level.
C18_OgTagsAtTopLevel ==
    (ExtractDone /\ page.kind = "ok") =>
        /\ response.code = 200
        /\ \A og \in OgTags(page.metas) : Leaf(og[1], Some(og[2])) \in extract_body

\* the answer to the page of test_extract_og_tags_success: og:title is under
\* data.og and not at the top level
C18_NestedUnderData ==
    /\ ExtractDone
    /\ page.kind = "ok"
    /\ response.code = 200
    /\ Leaf(<<"data", "og", "og:", "title">>, Some(<<"v1">>)) \in extract_body
    /\ Leaf(<<"og:", "title">>, Some(<<"v1">>)) \notin extract_body

\* ---------------------------------------------------------------------
\* Properties of the assembly for models without a system role
\* ---------------------------------------------------------------------
AssembledNoSystemRole == Assembled /\ is_no_system_role_model(request.model)

\* C21: for a model whose identifier contains "gemma-3" no turn is added in
\* front of the history: the directive, with the memory context appended, is
\* put in front of the content of the first history turn, whose role becomes
\* user if it was system, and the other turns are kept; with an empty history
\* it is put in front of the new user message, which is the only turn.
C21_DirectiveFoldedIntoFirstTurn ==
    AssembledNoSystemRole =>
        LET sc == SystemContent(memory_context)
            h == request.history
        IN  /\ Len(messages) = Len(h) + 1
            /\ messages[1].role # "system"
            /\ h # <<>> =>
                  /\ messages[1].content = sc \o <<NL>> \o h[1].content
                  /\ messages[1].role = (IF h[1].role = "system" THEN "user" ELSE h[1].role)
                  /\ \A i \in 2..Len(h) : messages[i] = h[i]
                  /\ messages[Len(h) + 1] = Turn("user", request.message)
            /\ h = <<>> => messages = <<Turn("user", sc \o <<NL>> \o request.message)>>

C21_Witness ==
    /\ AssembledNoSystemRole
    /\ pc = "chat_post"
    /\ ~IsNone(memory_context)
    /\ Len(request.history) = 2
    /\ request.history[1].role = "system"
    /\ messages[1].role = "user"
    /\ IsPrefix(SYSTEM_DIRECTIVE \o <<NL, MEMORY_HEADER>>, messages[1].content)

C21_WitnessEmptyHistory ==
    /\ AssembledNoSystemRole
    /\ request.history = <<>>
    /\ Len(messages) = 1
    /\ IsPrefix(SYSTEM_DIRECTIVE, messages[1].content)

\* ---------------------------------------------------------------------
\* Properties of the assembled list as a whole
\* ---------------------------------------------------------------------
\* C22 as claimed: the new message is the last element, with role user, and
\* the history turns appear in the list in their original order, none
\* dropped or duplicated.
C22_HistoryKeptMessageLast ==
    Assembled =>
        /\ messages[Len(messages)] = Turn("user", request.message)
        /\ \E k \in {0, 1} :
               /\ Len(messages) = k + Len(request.history) + 1
               /\ SubSeq(messages, k + 1, k + Len(request.history)) = request.history

\* C22 amended: the last element has role user and holds the new message
\* (behind the directive for a no-system-role model with an empty history);
\* every history turn keeps its position relative to the others, and every
\* turn but the first is unchanged; the first history turn is unchanged only
\* when a system turn was inserted in front of it, otherwise its content is
\* replaced by the directive (a system turn of the caller) or prefixed with it
\* (no-system-role model); the list is a function of the request and the
\* memory context.
C22_OrderKeptFirstTurnRewritten ==
    Assembled =>
        LET sc == SystemContent(memory_context)
            h == request.history
            n == Len(messages)
            k == n - 1 - Len(h)
            gemma == is_no_system_role_model(request.model)
        IN  /\ k \in {0, 1}
            /\ k = 1 <=> (~gemma /\ (h = <<>> \/ h[1].role # "system"))
            /\ messages[n].role = "user"
            /\ messages[n].content = (IF gemma /\ h = <<>> THEN sc \o <<NL>> \o request.message
                                      ELSE request.message)
            /\ \A i \in 2..Len(h) : messages[k + i] = h[i]
            /\ (h # <<>> /\ k = 1) => messages[2] = h[1]
            /\ (h # <<>> /\ k = 0 /\ ~gemma) => messages[1] = Turn("system", sc)
            /\ (h # <<>> /\ k = 0 /\ gemma) =>
                   messages[1].content = sc \o <<NL>> \o h[1].content
            /\ messages = Assemble(h, request.message, request.model, sc).messages

C22_Witness ==
    /\ Assembled
    /\ pc = "chat_post"
    /\ request.model = OTHER_MODEL
    /\ Len(request.history) = 2
    /\ request.history[1] = Turn("system", <<"h1">>)
    /\ messages[1] = Turn("system", SYSTEM_DIRECTIVE)
    /\ messages[2] = request.history[2]
    /\ messages[3] = Turn("user", request.message)

\* the usage object carries at least one of the three counts
HasUsageCounts(u) ==
    u.shape = "dict" /\ (~IsNone(u.prompt) \/ ~IsNone(u.completion) \/ ~IsNone(u.total))

\* C23 as claimed: a token-usage document holds the upstream prompt,
\* completion and total counts unchanged whenever the upstream answer carries
\* usage counts, and three latency-derived estimates, none of them null, when
\* it carries none.
C23_UpstreamVerbatimElseEstimate ==
    \A i \in 1..Len(token_usage) :
        LET d == token_usage[i]
            u == upstream.usage
        IN  IF HasUsageCounts(u)
            THEN /\ d.prompt_tokens = u.prompt
                 /\ d.completion_tokens = u.completion
                 /\ d.total_tokens = u.total
            ELSE CountsEstimated(d, upstream.duration_ms)

\* the document C23 fails on: upstream prompt and completion counts replaced
\* by estimates
C23_UpstreamCountsDiscarded ==
    /\ token_usage # <<>>
    /\ upstream.usage = Usage("dict", Some(10), Some(20), None)
    /\ upstream.duration_ms = 300
    /\ token_usage[1].prompt_tokens = Some(50)
    /\ token_usage[1].completion_tokens = Some(50)
    /\ token_usage[1].total_tokens = Some(100)

\* ---------------------------------------------------------------------
\* The trimming of _analyze_chat_logic on long conversations
\* ---------------------------------------------------------------------
MaxExtra == 2
MaxSystem == 1

RECURSIVE PositionSets(_, _)
\* the sets of at most n positions of a list of length len
PositionSets(n, len) ==
    IF n = 0 THEN { {} }
    ELSE LET fewer == PositionSets(n - 1, len)
         IN  fewer \cup { s \cup {a} : s \in fewer, a \in 1..len }

\* a conversation of len turns, user and assistant in turn, with system
\* turns at the positions sys; the i-th turn says i
LongHistory(len, sys) ==
    [i \in 1..len |->
        Turn(IF i \in sys THEN "system" ELSE IF i % 2 = 1 THEN "user" ELSE "assistant",
             <<ToString(i)>>)]

LongHistories ==
    UNION { { LongHistory(len, sys) : sys \in PositionSets(MaxSystem, len) }
            : len \in (MAX_MSG - 1)..(MAX_MSG + MaxExtra) }

TrimRequests ==
    { Req("/summary", Some(<<"k">>), <<>>, <<>>, "", h, Some("c1"), None) : h \in LongHistories }

InitTrim == InitWith(TrimRequests, {None}, {<<"client", TRUE>>}, {NoDocs})

\* _analyze_chat_logic up to the conversation text: the trimmed turns, and
\* the early return when there are none
AnalyzeTrim ==
    /\ pc = "start"
    /\ request.endpoint = "/summary"
    /\ api_key' = resolve_openrouter_key(request.creds, env_key)
    /\ messages' = Trimmed(request.history)
    /\ IF Trimmed(request.history) = <<>>
       THEN /\ response' = RespFailure(<<"No conversation to analyze">>)
            /\ response_sent' = TRUE
            /\ pc' = "done"
       ELSE /\ pc' = "trimmed"
            /\ UNCHANGED <<response, response_sent>>
    /\ UNCHANGED <<procVars, request, env_key, upstream_calls, store_calls, storeVars, loopVars,
                   memory_context, user_message, ids, upstream, background_tasks, bg_run>>

NextTrim == AnalyzeTrim

SpecTrim == InitTrim /\ [][NextTrim]_vars

\* ---------------------------------------------------------------------
\* Properties of the trimming
\* ---------------------------------------------------------------------
NonSystem(turns) ==
    LET Keep(t) == t.role # "system"
    IN  SelectSeq(turns, Keep)

\* the system turns among the last n turns of a list
SystemInWindow(turns, n) ==
    { i \in 1..Len(turns) : i > Len(turns) - n /\ turns[i].role = "system" }

\* C24 as claimed: the conversation handed to the model is the last 50 of
\* the non-system turns of the input, so an input with at least 50
\* user/assistant turns contributes exactly 50 turns.
C24_FilterThenWindow ==
    pc = "trimmed" =>
        /\ messages = LastN(NonSystem(request.history), MAX_MSG)
        /\ Len(NonSystem(request.history)) >= MAX_MSG => Len(messages) = MAX_MSG

\* C24 amended: the window of the last 50 turns is taken first and the
\* system turns are removed from it afterwards: the conversation handed to
\* the model is the non-system turns among the last 50 turns of the input, in
\* order, so it has 50 turns less the system turns inside the window (all the
\* non-system turns when the input has fewer than 50 turns).
C24_WindowThenFilter ==
    pc = "trimmed" =>
        LET h == request.history
            first == IF Len(h) > MAX_MSG THEN Len(h) - MAX_MSG + 1 ELSE 1
        IN  /\ messages = NonSystem(SubSeq(h, first, Len(h)))
            /\ Len(messages) = (Len(h) - first + 1) - Cardinality(SystemInWindow(h, MAX_MSG))
            /\ Len(messages) <= MAX_MSG
            /\ \A i \in 1..Len(messages) : messages[i].role \in {"user", "assistant"}

C24_Witness ==
    /\ pc = "trimmed"
    /\ Len(request.history) = MAX_MSG + 1
    /\ SystemInWindow(request.history, MAX_MSG) = {MAX_MSG + 1}
    /\ Len(NonSystem(request.history)) = MAX_MSG
    /\ Len(messages) = MAX_MSG - 1
    /\ messages[1] = request.history[2]


\* C25: a quick_update_opensearch call changes nothing but the document of
\* its chat_id, and of that document only last_message_at and message_count,
\* plus user_email when one is supplied; it creates the document when there
\* is none; title, summary and topics of an existing document are the same
\* after the call, so after any number of calls.
C25_TouchKeepsTitleSummaryTopics ==
    [][(op_log' # op_log /\ op_log'[Len(op_log')].op = "quick_update_opensearch") =>
          LET op == op_log'[Len(op_log')]
              c == Val(op.chat_id)
              old == chat_summaries[c]
              new == chat_summaries'[c]
          IN  /\ \A d \in ChatIds \ {c} : chat_summaries'[d] = chat_summaries[d]
              /\ ~op.serving => new = old
              /\ op.serving =>
                    /\ ~IsNone(new)
                    /\ Val(new).last_message_at = now
                    /\ Val(new).message_count = 2
                    /\ \A f \in {"title", "summary", "topics"} :
                          Val(new)[f] = IF IsNone(old) THEN None ELSE Val(old)[f]
                    /\ Val(new).user_email =
                          IF "user_email" \in Supplied(op) THEN op.user_email
                          ELSE IF IsNone(old) THEN None ELSE Val(old).user_email
      ]_vars

\* a summary write followed by two quick updates of the same chat: the
\* document still has the title, summary and topics of the write
C25_Witness ==
    /\ Len(op_log) = 3
    /\ op_log[1].op = "index_chat_summary" /\ op_log[1].serving
    /\ op_log[2].op = "quick_update_opensearch" /\ op_log[2].chat_id = op_log[1].chat_id
    /\ op_log[3].op = "quick_update_opensearch" /\ op_log[3].chat_id = op_log[1].chat_id
    /\ op_log[3].serving
    /\ LET doc == Val(chat_summaries[Val(op_log[1].chat_id)])
       IN  /\ ~IsNone(doc.title)
           /\ doc.summary = op_log[1].summary
           /\ ~IsNone(doc.summary)
           /\ doc.message_count = 2

\* a quick update of a chat that has no document creates one
C25_WitnessCreated ==
    /\ Len(op_log) = 1
    /\ LastOp = Op("quick_update_opensearch", Some("c1"), None, None, TRUE)
    /\ chat_summaries["c1"] = Some(SummaryDoc(None, None, None, None, 2, 2))


\* ---------------------------------------------------------------------
\* Share Chat API
\* ---------------------------------------------------------------------
MaxShares == 3

\* str(uuid.uuid4()): the n-th value drawn, never one drawn before
uuid4(n) == "uuid" \o ToString(n)

\* d[k] = v on a dict
DictSet(d, k, v) == [i \in (DOMAIN d) \cup {k} |-> IF i = k THEN v ELSE d[i]]

\* ShareRequest.messages
ShareMessages ==
    { <<>>,
      <<Turn("user", <<"h1">>)>>,
      <<Turn("user", <<"h1">>), Turn("assistant", <<"h2">>)>> }

\* {"id": share_id, "messages": SHARED_CHATS[share_id]}
RespShare(share_id, msgs) == [code |-> 200, id |-> share_id, messages |-> msgs]

\* HTTPException(status_code=404, detail="Shared chat not found")
Resp404 == [code |-> 404, detail |-> <<"Shared chat not found">>]

\* one finished request: share_id is the path parameter of GET and the id
\* generated by POST; messages is the body of POST
ShareOp(op, share_id, msgs, resp) ==
    [op |-> op, share_id |-> share_id, messages |-> msgs, response |-> resp]

StoreShare_Reset(chats, share_id, msgs) == [i \in {share_id} |-> msgs]

\* SHARED_CHATS[share_id] = request.messages
StoreShare(chats, share_id, msgs) == DictSet(chats, share_id, msgs)

InitShare == InitWith({NoRequest}, {None}, {<<"None", FALSE>>}, {NoDocs})

\* what no /share handler touches
shareFrame == <<pc, request, env_key, api_key, upstream_calls, store_calls, response_sent,
                response, storeVars, loopVars, chatVars, op_log, fetched, dashboard,
                extractVars, sessionVars>>

\* @app.post("/share"); the handler has no await and runs in one step
share_chat ==
    /\ Len(share_log) < MaxShares
    /\ \E msgs \in ShareMessages :
         LET share_id == uuid4(uuids + 1)
             chats == StoreShare(SHARED_CHATS, share_id, msgs)
         IN  /\ SHARED_CHATS' = chats
             /\ share_log' = Append(share_log,
                                    ShareOp("POST", share_id, msgs,
                                            RespShare(share_id, chats[share_id])))
    /\ uuids' = uuids + 1
    /\ UNCHANGED shareFrame

\* @app.get("/share/{share_id}"), for an id that was issued, the id the
\* next POST will issue, or an id that never is
get_shared_chat ==
    /\ Len(share_log) < MaxShares
    /\ \E share_id \in (DOMAIN SHARED_CHATS) \cup {uuid4(uuids + 1), "never"} :
         share_log' = Append(share_log,
                             ShareOp("GET", share_id, <<>>,
                                     IF share_id \notin DOMAIN SHARED_CHATS
                                     THEN Resp404
                                     ELSE RespShare(share_id, SHARED_CHATS[share_id])))
    /\ UNCHANGED <<shareFrame, SHARED_CHATS, uuids>>

NextShare == share_chat \/ get_shared_chat

SpecShare == InitShare /\ [][NextShare]_vars

\* ---------------------------------------------------------------------
\* Properties of the shared-chat map
\* ---------------------------------------------------------------------
\* the POST requests among the first n finished requests that issued share_id
IssuedBy(share_id, n) ==
    { j \in 1..n : share_log[j].op = "POST" /\ share_log[j].share_id = share_id }

\* C26: in any sequence of /share requests, a POST stores its messages
\* under an id no earlier POST issued and answers with them; the entry of an
\* issued id is the messages of the one POST that issued it, whatever came
\* after; a GET answers with exactly that entry, and with 404 for an id no
\* earlier POST issued; a GET changes nothing.
C26_ShareEntriesIndependent ==
    /\ [](\A n \in 1..Len(share_log) :
             LET r == share_log[n]
             IN  /\ r.op = "POST" =>
                       /\ IssuedBy(r.share_id, n - 1) = {}
                       /\ r.response = RespShare(r.share_id, r.messages)
                       /\ r.share_id \in DOMAIN SHARED_CHATS
                       /\ SHARED_CHATS[r.share_id] = r.messages
                 /\ r.op = "GET" =>
                       IF IssuedBy(r.share_id, n - 1) = {}
                       THEN r.response = Resp404
                       ELSE \E j \in IssuedBy(r.share_id, n - 1) :
                               r.response = RespShare(r.share_id, share_log[j].messages))
    /\ [](\A id \in DOMAIN SHARED_CHATS : IssuedBy(id, Len(share_log)) # {})
    /\ [][(share_log' # share_log /\ share_log'[Len(share_log')].op = "GET")
             => SHARED_CHATS' = SHARED_CHATS]_vars

\* two chats shared, then the first read back: it holds what its POST stored
C26_Witness ==
    /\ Len(share_log) = 3
    /\ share_log[1].op = "POST" /\ share_log[1].messages = <<Turn("user", <<"h1">>)>>
    /\ share_log[2].op = "POST" /\ share_log[2].messages = <<>>
    /\ share_log[3].op = "GET" /\ share_log[3].share_id = share_log[1].share_id
    /\ share_log[3].response = RespShare(share_log[1].share_id, <<Turn("user", <<"h1">>)>>)

\* an id is read before any POST issued it: 404, and the later POST of that
\* id is served
C26_WitnessNotFound ==
    /\ Len(share_log) = 3
    /\ share_log[1].op = "GET" /\ share_log[1].response = Resp404
    /\ share_log[2].op = "POST" /\ share_log[2].share_id = share_log[1].share_id
    /\ share_log[3].op = "GET" /\ share_log[3].share_id = share_log[1].share_id
    /\ share_log[3].response.code = 200


\* ---------------------------------------------------------------------
\* Properties of the telemetry of one /chat request
\* ---------------------------------------------------------------------
\* the (session id, user id) pairs on the telemetry recorded for the request
TelemetryIds ==
    { <<background_tasks[i].session_id, background_tasks[i].user_id>> :
        i \in TasksOfRole("user") \cup TasksOfRole("assistant") }
    \cup { <<token_usage[i].session_id, token_usage[i].user_id>> : i \in 1..Len(token_usage) }

\* C27 as claimed: the user-turn event, the assistant-turn event and the
\* token-usage record of one /chat request all carry one session id and one
\* user id, on every outcome path.
C27_OneSessionOneUserPerRequest ==
    IsChat => Cardinality(TelemetryIds) <= 1

\* the state C27 fails in: a request without chat_id and user_email whose
\* upstream call raised has its user turn under the generated session id and
\* "anonymous", its assistant turn under "unknown" and "unknown"
C27_ExceptionPathUnknownIds ==
    /\ IsPlainChat /\ response_sent
    /\ IsNone(request.chat_id) /\ IsNone(request.user_email)
    /\ upstream.kind = "exception"
    /\ TelemetryIds = { <<UUID_SESSION, "anonymous">>, <<"unknown", "unknown">> }


\* C28 as claimed: the content of the user-turn event of a /chat request is
\* the message the caller sent, for every model and every history.
C28_UserEventIsMessageSent ==
    IsChat => \A i \in TasksOfRole("user") : background_tasks[i].content = request.message

\* the state C28 fails in: a no-system-role model, an empty history and a
\* known user with stored memory: the user-turn event starts with the
\* directive and the memory text and ends with the message sent
C28_DirectiveInUserEvent ==
    /\ IsPlainChat /\ request.model = GEMMA /\ request.history = <<>>
    /\ ~IsNone(memory_context)
    /\ TasksOfRole("user") = {1}
    /\ background_tasks[1].content =
           SYSTEM_DIRECTIVE \o <<NL, MEMORY_HEADER, NL>> \o Val(memory_context)
               \o <<NL>> \o request.message


\* ---------------------------------------------------------------------
\* Properties of the process-wide handle
\* ---------------------------------------------------------------------
\* C29 as claimed: after startup the handle is set only when a ping has been
\* answered: while the store has never been reachable it is None, so that
\* every get_opensearch_or_raise() attempts a reconnect and raises 503.
C29_HandleSetOnlyAfterPing ==
    (pc # "boot" /\ ~store_up) => opensearch_client = "None"

\* the state C29 fails in: the store has never answered, startup has left the
\* handle set, and calls guarded by get_opensearch_or_raise() have gone
\* through without a reconnect
C29_HandleSetNeverPinged ==
    /\ pc = "serving" /\ ~store_up
    /\ opensearch_client = "client"
    /\ Len(op_log) = 2
    /\ op_log[1].op = "dashboard_token_usage"
    /\ op_log[2].op = "log_to_opensearch"
    /\ \A i \in 1..2 : ~op_log[i].serving


\* ---------------------------------------------------------------------
\* experiment_ai_logging: the session store
\* ---------------------------------------------------------------------
MaxCalls == 2

DEV_USER == "dev_user"

\* the user_id values requests carry; "" stands for every falsy value
LoggerUsers == {DEV_USER, "u2"}

\* ChatRequest.session_id: absent, empty, a client's own id, or an id an
\* earlier request generated
SessionIds(n) == {None, Some(""), Some("sA")} \cup { Some(uuid4(k)) : k \in 1..n }

\* one request of the logger app: what it carried, the user and session it
\* resolved to, and where its handler stands
LoggerCall(kind, user_id, session_id, user, session, at, status) ==
    [kind |-> kind, user_id |-> user_id, session_id |-> session_id, user |-> user,
     session |-> session, pc |-> at, status |-> status]

\* the document log_to_opensearch hands to oss_client.index for call i
LoggerDoc(i, session_id, user_id, role, status) ==
    [call |-> i, session_id |-> session_id, user_id |-> user_id, role |-> role,
     status |-> status]

ResolveSession_AlwaysNew(active, user, session_id, fresh) ==
    IF ~IsNone(session_id) /\ Val(session_id) # ""
    THEN [session |-> Val(session_id), active |-> DictSet(active, user, Val(session_id)),
          generated |-> FALSE]
    ELSE [session |-> fresh, active |-> DictSet(active, user, fresh), generated |-> TRUE]

\* the "Session logic" block of chat_endpoint: the session id used, the map
\* afterwards, and whether uuid4() was called
ResolveSession(active, user, session_id, fresh) ==
    IF ~IsNone(session_id) /\ Val(session_id) # ""
    THEN [session |-> Val(session_id), active |-> DictSet(active, user, Val(session_id)),
          generated |-> FALSE]
    ELSE IF user \in DOMAIN active /\ active[user] # ""
    THEN [session |-> active[user], active |-> active, generated |-> FALSE]
    ELSE [session |-> fresh, active |-> DictSet(active, user, fresh), generated |-> TRUE]

InitSession == InitWith({NoRequest}, {None}, {<<"None", FALSE>>}, {NoDocs})

\* what no handler of the logger app touches
sessionFrame == <<pc, request, env_key, api_key, upstream_calls, store_calls, response_sent,
                  response, storeVars, loopVars, chatVars, op_log, fetched, dashboard,
                  extractVars, shareVars>>

\* @app.post("/new_chat"); the handler has no await
new_chat ==
    /\ Len(calls) < MaxCalls
    /\ \E user_id \in LoggerUsers :
         LET session_id == uuid4(uuids + 1)
         IN  /\ ACTIVE_SESSION_BY_USER' = DictSet(ACTIVE_SESSION_BY_USER, user_id, session_id)
             /\ calls' = Append(calls, LoggerCall("new_chat", user_id, None, user_id, session_id,
                                            "done", "success"))
    /\ uuids' = uuids + 1
    /\ UNCHANGED <<sessionFrame, logger_docs>>

\* @app.post("/chat") up to its first suspension, inside the index call of
\* the user event: user_id, the session logic, the user document
chat_endpoint ==
    /\ Len(calls) < MaxCalls
    /\ \E user_id \in LoggerUsers \cup {""}, session_id \in SessionIds(uuids) :
         LET user == IF user_id = "" THEN DEV_USER ELSE user_id
             r == ResolveSession(ACTIVE_SESSION_BY_USER, user, session_id, uuid4(uuids + 1))
         IN  /\ ACTIVE_SESSION_BY_USER' = r.active
             /\ uuids' = IF r.generated THEN uuids + 1 ELSE uuids
             /\ calls' = Append(calls, LoggerCall("chat", user_id, session_id, user, r.session,
                                            "upstream", "success"))
             /\ logger_docs' = Append(logger_docs,
                                      LoggerDoc(Len(calls) + 1, r.session, user, "user", "success"))
    /\ UNCHANGED sessionFrame

\* Step B and Step C of call i: the upstream answered or failed, the
\* assistant document is handed to the index call
ChatLogAssistant(i) ==
    /\ calls[i].pc = "upstream"
    /\ \E status \in {"success", "error"} :
         /\ calls' = [calls EXCEPT ![i].pc = "respond", ![i].status = status]
         /\ logger_docs' = Append(logger_docs,
                                  LoggerDoc(i, calls[i].session, calls[i].user, "assistant", status))
    /\ UNCHANGED <<sessionFrame, ACTIVE_SESSION_BY_USER, uuids>>

\* call i returns its ChatResponse or raises 502
ChatRespond(i) ==
    /\ calls[i].pc = "respond"
    /\ calls' = [calls EXCEPT ![i].pc = "done"]
    /\ UNCHANGED <<sessionFrame, ACTIVE_SESSION_BY_USER, logger_docs, uuids>>

NextSession ==
    \/ new_chat
    \/ chat_endpoint
    \/ \E i \in 1..Len(calls) : ChatLogAssistant(i)
    \/ \E i \in 1..Len(calls) : ChatRespond(i)

SpecSession == InitSession /\ [][NextSession]_vars

\* ---------------------------------------------------------------------
\* Properties of the session store
\* ---------------------------------------------------------------------
\* the requests so far that resolved to user
CallsOf(user) == { j \in 1..Len(calls) : calls[j].user = user }

Latest(S) == CHOOSE j \in S : \A k \in S : k <= j

\* the session logic of the /chat request that has just arrived
SessionResolved ==
    LET c == calls'[Len(calls')]
        given == ~IsNone(c.session_id) /\ Val(c.session_id) # ""
        known == c.user \in DOMAIN ACTIVE_SESSION_BY_USER
    IN  /\ c.user = (IF c.user_id = "" THEN DEV_USER ELSE c.user_id)
        /\ given => (c.session = Val(c.session_id) /\ uuids' = uuids)
        /\ (~given /\ known) =>
              (c.session = ACTIVE_SESSION_BY_USER[c.user] /\ uuids' = uuids)
        /\ (~given /\ ~known) => (c.session = uuid4(uuids') /\ uuids' = uuids + 1)
        /\ ACTIVE_SESSION_BY_USER'[c.user] = c.session
        /\ DOMAIN ACTIVE_SESSION_BY_USER' = (DOMAIN ACTIVE_SESSION_BY_USER) \cup {c.user}
        /\ \A u \in (DOMAIN ACTIVE_SESSION_BY_USER) \ {c.user} :
              ACTIVE_SESSION_BY_USER'[u] = ACTIVE_SESSION_BY_USER[u]

\* C30: under every interleaving of /new_chat and /chat requests, a /chat
\* request with a session_id uses it and records it for its user; one
\* without uses the session recorded for the user and generates an id only
\* when none is recorded; when the session logic of a request is done the
\* entry of its user is the session id that all log events of the request
\* carry, and the entries of other users are as before.  The entry of a user
\* is always the session of the latest request of that user.
C30_SessionResolution ==
    /\ [][(Len(calls') = Len(calls) + 1 /\ calls'[Len(calls')].kind = "chat")
             => SessionResolved]_vars
    /\ [](\A n \in 1..Len(logger_docs) :
             LET d == logger_docs[n]
             IN  /\ d.session_id = calls[d.call].session
                 /\ d.user_id = calls[d.call].user)
    /\ [](\A u \in DOMAIN ACTIVE_SESSION_BY_USER :
             /\ CallsOf(u) # {}
             /\ ACTIVE_SESSION_BY_USER[u] = calls[Latest(CallsOf(u))].session)

\* /new_chat of the default user, then a /chat without user_id and
\* session_id: both events of the /chat carry the session /new_chat recorded
C30_Witness ==
    /\ Len(calls) = 2
    /\ calls[1].kind = "new_chat" /\ calls[1].user_id = DEV_USER
    /\ calls[2] = LoggerCall("chat", "", None, DEV_USER, uuid4(1), "done", "success")
    /\ ACTIVE_SESSION_BY_USER[DEV_USER] = uuid4(1)
    /\ logger_docs = << LoggerDoc(2, uuid4(1), DEV_USER, "user", "success"),
                        LoggerDoc(2, uuid4(1), DEV_USER, "assistant", "success") >>

\* two /chat requests interleave: the first, without session_id, gets a
\* generated id; the second arrives with its own id for another user while
\* the first waits for the upstream; the first finishes under its id
C30_WitnessInterleaved ==
    /\ Len(calls) = 2
    /\ calls[1] = LoggerCall("chat", "u2", None, "u2", uuid4(1), "done", "error")
    /\ calls[2] = LoggerCall("chat", DEV_USER, Some("sA"), DEV_USER, "sA", "upstream", "success")
    /\ ACTIVE_SESSION_BY_USER["u2"] = uuid4(1)
    /\ ACTIVE_SESSION_BY_USER[DEV_USER] = "sA"
    /\ Len(logger_docs) = 3
    /\ logger_docs[2].call = 2
    /\ logger_docs[3] = LoggerDoc(1, uuid4(1), "u2", "assistant", "error")

====
